---- MODULE Spec2Model ----
(***************************************************************************)
(* Concurrent data-access and ingestion layer of the Binance screener:     *)
(*   DatabaseManager / EnhancedDatabaseManager  (connection pool, retry)   *)
(*   BinanceWebSocketClient                     (streams, caches)          *)
(*   PerformanceEnhancedWebSocketClient         (parallel backfill)        *)
(* One module, several specifications; each specification exercises one    *)
(* component and leaves the variables of the others at their initial value.*)
(***************************************************************************)
EXTENDS Integers, Sequences, FiniteSets, TLC

VARIABLES
    connection_pool,   \* DatabaseManager.connection_pool: set of <<thread, db, handle>>
    conns,             \* every physical sqlite3 connection opened so far (index = handle)
    lastCall,          \* observation of the last pool operation
    tables,            \* committed rows of each table
    schema,            \* names of the tables that currently exist
    eq,                \* per thread: frame of its execute_query / _save_kline call
    writes,            \* history: the candle writes that completed, in order
    running,           \* BinanceWebSocketClient.running
    active_websockets, \* symbol -> registered WebSocketApp (0: no entry)
    connection_threads,\* list of the subscription threads started
    ws_threads,        \* every subscription thread: symbol, position, its socket
    socks,             \* every stream connection opened so far
    ctl,               \* the thread that calls start() and stop()
    klines,            \* BinanceWebSocketClient.klines: the rolling caches
    prices,            \* BinanceWebSocketClient.prices
    feedT,             \* open_time of the last completed candle the feed delivered
    gh,                \* frame of a get_historical_klines call
    bf,                \* the thread that runs a historical backfill
    tasks,             \* per symbol: the backfill task submitted to the thread pool
    disc,              \* the last symbol discovery call: client, reply, result
    gp,                \* frame of a get_current_price call
    locks,             \* klines_lock and price_lock: the holding thread (0: free)
    om                 \* the on_message callback, followed block by block

poolVars  == <<connection_pool, conns, lastCall>>
storeVars == <<tables, schema>>
execVars  == <<eq>>
histVars  == <<writes>>
streamVars == <<running, active_websockets, connection_threads, ws_threads,
                socks, ctl>>
cacheVars == <<klines, prices, feedT, gh>>
loadVars == <<bf, tasks>>
discVars == <<disc>>
callVars == <<gp, locks, om>>
clientVars == <<histVars, streamVars, cacheVars, loadVars, discVars, callVars>>
dbVars == <<poolVars, storeVars, execVars>>
vars == <<connection_pool, conns, lastCall, tables, schema, eq, writes,
          running, active_websockets, connection_threads, ws_threads, socks,
          ctl, klines, prices, feedT, gh, bf, tasks, disc, gp, locks,
          om>>

(***************************************************************************)
(* Bounds                                                                  *)
(***************************************************************************)
NumThreads == 2
MaxConns == 3
MaxRetriesArg == 3
MaxCalls == 2
MaxWrites == 3
MaxWsThreads == 2
MaxSocks == 3
MaxExtra == 2
MaxSaveFailures == 1
MaxInFlight == 1
MaxCandles == 1
MaxTime == 2
MaxClose == 2

Threads == 1..NumThreads
DbNames == {"market_data", "kline_data"}
NoHandle == 0

(***************************************************************************)
(* DatabaseManager: connection pool                                        *)
(***************************************************************************)
PoolEntries(pool, t, d) == {e \in pool : e[1] = t /\ e[2] = d}

PoolHandles(pool, t, d) == {e[3] : e \in PoolEntries(pool, t, d)}

PoolGet(pool, t, d) ==
    IF PoolEntries(pool, t, d) = {} THEN NoHandle
    ELSE CHOOSE h \in PoolHandles(pool, t, d) : TRUE

\* connection_pool[thread_id][db_name] = conn : a dict assignment replaces
PoolPut(pool, t, d, h) == (pool \ PoolEntries(pool, t, d)) \cup {<<t, d, h>>}

PoolDel_Keep(pool, t, d) == pool

\* del connection_pool[thread_id][db_name]
PoolDel(pool, t, d) == pool \ PoolEntries(pool, t, d)

NewConn(t, d) == [thread |-> t, db |-> d, open |-> TRUE, pending |-> <<>>]

GetConnMiss_Always(t, d) == TRUE

\* "if db_name not in self.connection_pool[thread_id]"
GetConnMiss(t, d) == PoolEntries(connection_pool, t, d) = {}

\* the pool and the physical connections after get_connection(d) by thread t
GetConnPool(t, d) ==
    IF GetConnMiss(t, d) THEN PoolPut(connection_pool, t, d, Len(conns) + 1)
    ELSE connection_pool

GetConnConns(t, d) ==
    IF GetConnMiss(t, d) THEN Append(conns, NewConn(t, d)) ELSE conns

CloseRaises_Never(caller, h) == FALSE

\* sqlite3 connections are opened with the default check_same_thread, so
\* close() from a thread other than the creator raises ProgrammingError and
\* leaves the connection open
CloseRaises(caller, h) == conns[h].thread # caller

CloseConn(cs, caller, h) ==
    IF CloseRaises(caller, h) THEN cs
    ELSE [cs EXCEPT ![h].open = FALSE, ![h].pending = <<>>]

GetConnStep(t, d) ==
    /\ GetConnMiss(t, d) => Len(conns) < MaxConns
    /\ connection_pool' = GetConnPool(t, d)
    /\ conns' = GetConnConns(t, d)
    /\ lastCall' = [op |-> "get_connection", thread |-> t, db |-> d,
                    hit |-> PoolEntries(connection_pool, t, d) # {},
                    prev |-> PoolGet(connection_pool, t, d),
                    ret |-> PoolGet(connection_pool', t, d),
                    opened |-> Len(conns') - Len(conns)]

get_connection(t, d) == GetConnStep(t, d) /\ UNCHANGED <<storeVars, execVars, clientVars>>

NoCall == [op |-> "none", thread |-> 0, db |-> "", hit |-> FALSE,
           prev |-> NoHandle, ret |-> NoHandle, opened |-> 0]

\* close_connection(db_name, thread_id): thread_id defaults to the caller
close_connection(caller, d, tid) ==
    /\ LET h == PoolGet(connection_pool, tid, d) IN
       IF h # NoHandle
       THEN /\ conns' = CloseConn(conns, caller, h)
            /\ connection_pool' = IF CloseRaises(caller, h) THEN connection_pool
                                  ELSE PoolDel(connection_pool, tid, d)
       ELSE UNCHANGED <<connection_pool, conns>>
    /\ lastCall' = [NoCall EXCEPT !.op = "close_connection", !.thread = caller,
                                  !.hit = PoolEntries(connection_pool, tid, d) # {}]
    /\ UNCHANGED <<storeVars, execVars, clientVars>>

RECURSIVE CloseEach(_, _, _)
CloseEach(cs, caller, hs) ==
    IF hs = {} THEN cs
    ELSE LET h == CHOOSE x \in hs : TRUE
         IN CloseEach(CloseConn(cs, caller, h), caller, hs \ {h})

close_all(caller) ==
    /\ conns' = CloseEach(conns, caller, {e[3] : e \in connection_pool})
    /\ connection_pool' = {}
    /\ lastCall' = [NoCall EXCEPT !.op = "close_all", !.thread = caller]
    /\ UNCHANGED <<storeVars, execVars, clientVars>>

IdleFrame == [pc |-> "idle", calls |-> 0]

\* the components at rest, as left by the constructors
PoolIdle == connection_pool = {} /\ conns = <<>> /\ lastCall = NoCall
ExecIdle == eq = [t \in Threads |-> IdleFrame]
StoreEmpty(sc) ==
    /\ tables = [n \in {"market_data", "kline_data", "klines"} |-> {}]
    /\ schema = sc
StreamSymbols == {"a", "b"}

StreamIdle ==
    /\ running = FALSE
    /\ active_websockets = [sy \in StreamSymbols |-> 0]
    /\ connection_threads = <<>>
    /\ ws_threads = <<>>
    /\ socks = <<>>
    /\ ctl = [pc |-> "idle", todo |-> <<>>, stopped |-> FALSE]

CacheSymbols == {"A"}

NoCache == [present |-> FALSE, list |-> <<>>, from |-> "none", appends |-> 0]

GhIdle == [pc |-> "idle", during |-> 0]

CacheIdle ==
    /\ klines = [sy \in CacheSymbols |-> NoCache]
    /\ prices = [sy \in CacheSymbols |-> 0]
    /\ feedT = 0
    /\ gh = GhIdle

BackfillSymbols == {"A", "B", "C"}

NoTask == [pc |-> "none", thread |-> 0, fetch |-> "none", klines |-> <<>>,
           next |-> 1, wrote |-> 0, result |-> "none", collected |-> FALSE]

BfIdle == [pc |-> "idle", variant |-> "enhanced", symbols |-> <<>>,
           i |-> 0, processed |-> 0, successful |-> 0, failed |-> 0,
           ret |-> "none"]

LoadIdle == bf = BfIdle /\ tasks = [sy \in BackfillSymbols |-> NoTask]

NoDiscovery == [pc |-> "idle"]

DiscIdle == disc = NoDiscovery

GpIdle == [pc |-> "idle"]

NoLocks == [klines_lock |-> 0, price_lock |-> 0]

\* "with self.<lock>:" entered by thread t: threading.Lock blocks while held
Acquire(l, t) == locks[l] = 0 /\ locks' = [locks EXCEPT ![l] = t]

\* the end of the with block
Release(l) == locks' = [locks EXCEPT ![l] = 0]

\* None where a price is expected
NoPrice == 0 - 1

OmIdle == [pc |-> "idle"]

CallIdle == gp = GpIdle /\ locks = NoLocks /\ om = OmIdle

ClientIdle == writes = <<>> /\ StreamIdle /\ CacheIdle /\ LoadIdle /\ DiscIdle
              /\ CallIdle

InitPool == PoolIdle /\ StoreEmpty({}) /\ ExecIdle /\ ClientIdle

PoolGetConnection == \E t \in Threads, d \in DbNames : get_connection(t, d)
PoolCloseConnection ==
    \E c \in Threads, d \in DbNames, tid \in Threads : close_connection(c, d, tid)
PoolCloseAll == \E c \in Threads : close_all(c)

NextPool == PoolGetConnection \/ PoolCloseConnection \/ PoolCloseAll

SpecPool == InitPool /\ [][NextPool]_vars

(***************************************************************************)
(* Durable storage: tables of candle rows.  A row keeps the key columns    *)
(* (symbol, timeframe, open_time; market_data calls the last "timestamp")  *)
(* and one value column, close.                                            *)
(***************************************************************************)
TableNames == {"market_data", "kline_data", "klines"}

Row(sym, tf, ot, c) == [symbol |-> sym, timeframe |-> tf, open_time |-> ot, close |-> c]

KeyOf(r) == <<r.symbol, r.timeframe, r.open_time>>

SameKey(rows, r) == {x \in rows : KeyOf(x) = KeyOf(r)}

\* INSERT OR IGNORE against UNIQUE(symbol, timestamp, timeframe)
InsertOrIgnore(rows, r) == IF SameKey(rows, r) # {} THEN rows ELSE rows \cup {r}

\* INSERT OR REPLACE against PRIMARY KEY (symbol, timeframe, open_time)
InsertOrReplace(rows, r) == (rows \ SameKey(rows, r)) \cup {r}

Stmt(k, tb, r) == [kind |-> k, table |-> tb, row |-> r]

\* a statement fails with "no such table" when its table does not exist
StmtRuns(sc, s) ==
    s.kind \in {"insert_or_ignore", "insert_or_replace"} => s.table \in sc

ApplyTables(tb, s) ==
    CASE s.kind = "insert_or_ignore" ->
            [tb EXCEPT ![s.table] = InsertOrIgnore(tb[s.table], s.row)]
      [] s.kind = "insert_or_replace" ->
            [tb EXCEPT ![s.table] = InsertOrReplace(tb[s.table], s.row)]
      [] s.kind = "drop" -> [tb EXCEPT ![s.table] = {}]
      [] OTHER -> tb

ApplySchema(sc, s) ==
    CASE s.kind = "drop" -> sc \ {s.table}
      [] s.kind = "create" -> sc \cup {s.table}
      [] OTHER -> sc

RECURSIVE ApplyAllTables(_, _)
ApplyAllTables(tb, ss) ==
    IF ss = <<>> THEN tb ELSE ApplyAllTables(ApplyTables(tb, Head(ss)), Tail(ss))

RECURSIVE ApplyAllSchema(_, _)
ApplyAllSchema(sc, ss) ==
    IF ss = <<>> THEN sc ELSE ApplyAllSchema(ApplySchema(sc, Head(ss)), Tail(ss))

(***************************************************************************)
(* DatabaseManager.execute_query: one frame per calling thread.            *)
(* The outcome of cursor.execute and of conn.commit is the environment's:  *)
(* ok, "database is locked" (OperationalError) or another error.           *)
(* Delays are in units of 0.1 s.                                           *)
(***************************************************************************)
Outcomes == {"ok", "locked", "error"}

RECURSIVE Pow2(_)
Pow2(n) == IF n = 0 THEN 1 ELSE 2 * Pow2(n - 1)

\* sleep_time = 0.1 * (2 ** attempt)
SleepTime(attempt) == Pow2(attempt)

RetryAllowed_OffByOne(attempt, max_retries) == attempt < max_retries

\* "attempt < max_retries - 1"
RetryAllowed(attempt, max_retries) == attempt < max_retries - 1

\* the head of "for attempt in range(max_retries)": run the body or fall
\* out of the loop, which ends the function without a return statement
LoopHead(f, attempt) ==
    IF attempt < f.max_retries
    THEN [f EXCEPT !.pc = "execute", !.attempt = attempt]
    ELSE [f EXCEPT !.pc = "done", !.attempt = attempt, !.result = "none"]

OnError_RetryAny(f, outcome) ==
    IF RetryAllowed(f.attempt, f.max_retries)
    THEN [f EXCEPT !.pc = "sleep",
                   !.locked = f.locked + (IF outcome = "locked" THEN 1 ELSE 0),
                   !.sleeps = Append(f.sleeps, SleepTime(f.attempt))]
    ELSE [f EXCEPT !.pc = "done",
                   !.locked = f.locked + (IF outcome = "locked" THEN 1 ELSE 0),
                   !.result = IF outcome = "locked" THEN "raise_locked"
                              ELSE "raise_error"]

\* the "except sqlite3.OperationalError" / "except Exception" handlers
OnError(f, outcome) ==
    IF outcome = "locked" /\ RetryAllowed(f.attempt, f.max_retries)
    THEN [f EXCEPT !.pc = "sleep", !.locked = f.locked + 1,
                   !.sleeps = Append(f.sleeps, SleepTime(f.attempt))]
    ELSE [f EXCEPT !.pc = "done",
                   !.locked = f.locked + (IF outcome = "locked" THEN 1 ELSE 0),
                   !.result = IF outcome = "locked" THEN "raise_locked"
                              ELSE "raise_error"]

\* execute_query(db, stmt, commit=c, max_retries=k): get_connection, cursor
ExecCall(t, path, d, s, c, k) ==
    /\ eq[t].pc = "idle"
    /\ eq[t].calls < MaxCalls
    /\ GetConnStep(t, d)
    /\ eq' = [eq EXCEPT ![t] =
                LoopHead([pc |-> "loop", calls |-> eq[t].calls + 1, path |-> path, db |-> d,
                          stmt |-> s, commit |-> c, max_retries |-> k,
                          conn |-> PoolGet(connection_pool', t, d),
                          attempt |-> 0, tries |-> 0, locked |-> 0,
                          sleeps |-> <<>>, result |-> "pending"], 0)]
    /\ UNCHANGED <<storeVars, clientVars>>

\* cursor.execute(query, params)
ExecExecute(t, outcome) ==
    LET f == eq[t]
        g == [f EXCEPT !.tries = f.tries + 1]
    IN
    /\ f.pc = "execute"
    /\ outcome = "ok" => StmtRuns(ApplyAllSchema(schema, conns[f.conn].pending), f.stmt)
    /\ IF outcome = "ok"
       THEN /\ conns' = [conns EXCEPT ![f.conn].pending = Append(@, f.stmt)]
            /\ eq' = [eq EXCEPT ![t] =
                        IF f.commit THEN [g EXCEPT !.pc = "commit"]
                        ELSE [g EXCEPT !.pc = "done", !.result = "ok"]]
       ELSE /\ conns' = conns
            /\ eq' = [eq EXCEPT ![t] = OnError(g, outcome)]
    /\ UNCHANGED <<connection_pool, lastCall, storeVars, clientVars>>

\* conn.commit(): on success the connection's transaction becomes durable
ExecCommit(t, outcome) ==
    LET f == eq[t] IN
    /\ f.pc = "commit"
    /\ IF outcome = "ok"
       THEN /\ tables' = ApplyAllTables(tables, conns[f.conn].pending)
            /\ schema' = ApplyAllSchema(schema, conns[f.conn].pending)
            /\ conns' = [conns EXCEPT ![f.conn].pending = <<>>]
            /\ eq' = [eq EXCEPT ![t] = [f EXCEPT !.pc = "done", !.result = "ok"]]
       ELSE /\ UNCHANGED <<tables, schema, conns>>
            /\ eq' = [eq EXCEPT ![t] = OnError(f, outcome)]
    /\ UNCHANGED <<connection_pool, lastCall, clientVars>>

\* time.sleep(sleep_time) returns and the for loop takes its next index
ExecWake(t) ==
    /\ eq[t].pc = "sleep"
    /\ eq' = [eq EXCEPT ![t] = LoopHead(eq[t], eq[t].attempt + 1)]
    /\ UNCHANGED <<poolVars, storeVars, clientVars>>

\* the call has returned or raised; the thread is free for its next call
ExecReturn(t) ==
    /\ eq[t].pc = "done"
    /\ eq' = [eq EXCEPT ![t] = [pc |-> "idle", calls |-> eq[t].calls]]
    /\ UNCHANGED <<poolVars, storeVars, clientVars>>

(***************************************************************************)
(* BinanceWebSocketClient._save_kline: the streaming write path.  One      *)
(* cursor.execute and one conn.commit on the thread's 'kline_data'         *)
(* connection inside try / except Exception: logger.error.                 *)
(***************************************************************************)
SaveKlineCall(t, r) ==
    /\ eq[t].pc = "idle"
    /\ eq[t].calls < MaxCalls
    /\ GetConnStep(t, "kline_data")
    /\ eq' = [eq EXCEPT ![t] =
                [pc |-> "sk_execute", calls |-> eq[t].calls + 1, path |-> "stream",
                 db |-> "kline_data", stmt |-> Stmt("insert_or_replace", "klines", r),
                 commit |-> TRUE, max_retries |-> 0,
                 conn |-> PoolGet(connection_pool', t, "kline_data"),
                 attempt |-> 0, tries |-> 0, locked |-> 0,
                 sleeps |-> <<>>, result |-> "pending"]]
    /\ UNCHANGED <<storeVars, clientVars>>

\* except Exception as e: logger.error(...) -- the function returns None
SaveKlineLogged(f, outcome) ==
    [f EXCEPT !.pc = "done",
              !.locked = f.locked + (IF outcome = "locked" THEN 1 ELSE 0),
              !.result = IF outcome = "locked" THEN "logged_locked" ELSE "logged_error"]

SaveKlineExecute(t, outcome) ==
    LET f == eq[t]
        g == [f EXCEPT !.tries = f.tries + 1]
    IN
    /\ f.pc = "sk_execute"
    /\ outcome = "ok" => StmtRuns(ApplyAllSchema(schema, conns[f.conn].pending), f.stmt)
    /\ IF outcome = "ok"
       THEN /\ conns' = [conns EXCEPT ![f.conn].pending = Append(@, f.stmt)]
            /\ eq' = [eq EXCEPT ![t] = [g EXCEPT !.pc = "sk_commit"]]
       ELSE /\ conns' = conns
            /\ eq' = [eq EXCEPT ![t] = SaveKlineLogged(g, outcome)]
    /\ UNCHANGED <<connection_pool, lastCall, storeVars, clientVars>>

SaveKlineCommit(t, outcome) ==
    LET f == eq[t] IN
    /\ f.pc = "sk_commit"
    /\ IF outcome = "ok"
       THEN /\ tables' = ApplyAllTables(tables, conns[f.conn].pending)
            /\ schema' = ApplyAllSchema(schema, conns[f.conn].pending)
            /\ conns' = [conns EXCEPT ![f.conn].pending = <<>>]
            /\ eq' = [eq EXCEPT ![t] = [f EXCEPT !.pc = "done", !.result = "ok"]]
       ELSE /\ UNCHANGED <<tables, schema, conns>>
            /\ eq' = [eq EXCEPT ![t] = SaveKlineLogged(f, outcome)]
    /\ UNCHANGED <<connection_pool, lastCall, clientVars>>

\* execute_query(..., max_retries=5): the default every caller of the core uses
DefaultMaxRetries == 5

\* the candle writes of the backfill path (process_symbol, process_symbol_enhanced)
BackfillStatements ==
    {Stmt("insert_or_ignore", "market_data", Row("A", "1h", 1, c)) : c \in 1..MaxClose}
    \cup {Stmt("insert_or_replace", "kline_data", Row("A", "1h", 1, c)) : c \in 1..MaxClose}

\* the retry loop is sequential code of one thread: one caller is explored
ExecThreads == {1}

InitExec == PoolIdle /\ StoreEmpty(TableNames) /\ ExecIdle /\ ClientIdle

\* execute_query called directly with any commit flag and retry count
ExecDoCall ==
    \E t \in ExecThreads, s \in BackfillStatements, c \in BOOLEAN, k \in 0..MaxRetriesArg :
        ExecCall(t, "query", "market_data", s, c, k)
\* the call made for each candle by the backfill tasks
ExecDoBackfillWrite ==
    \E t \in ExecThreads, s \in BackfillStatements :
        ExecCall(t, "backfill", "market_data", s, TRUE, DefaultMaxRetries)
ExecDoExecute == \E t \in ExecThreads, o \in Outcomes : ExecExecute(t, o)
ExecDoCommit == \E t \in ExecThreads, o \in Outcomes : ExecCommit(t, o)
ExecDoWake == \E t \in ExecThreads : ExecWake(t)
ExecDoReturn == \E t \in ExecThreads : ExecReturn(t)
ExecDoSaveKline ==
    \E t \in ExecThreads, c \in 1..MaxClose : SaveKlineCall(t, Row("A", "1m", 1, c))
ExecDoSaveKlineExecute == \E t \in ExecThreads, o \in Outcomes : SaveKlineExecute(t, o)
ExecDoSaveKlineCommit == \E t \in ExecThreads, o \in Outcomes : SaveKlineCommit(t, o)

NextExec ==
    \/ ExecDoCall \/ ExecDoBackfillWrite \/ ExecDoExecute \/ ExecDoCommit
    \/ ExecDoWake \/ ExecDoReturn
    \/ ExecDoSaveKline \/ ExecDoSaveKlineExecute \/ ExecDoSaveKlineCommit

SpecExec == InitExec /\ [][NextExec]_vars

(***************************************************************************)
(* The candle write paths and the schema initializers as whole operations, *)
(* every statement succeeding (the contended outcomes of one statement are *)
(* explored by SpecExec).  writes records, per table, the candle writes    *)
(* made since the table was last created.                                  *)
(***************************************************************************)
RECURSIVE ApplyAllStmts(_, _)
ApplyAllStmts(db, ss) ==
    IF ss = <<>> THEN db
    ELSE ApplyAllStmts([tables |-> ApplyTables(db.tables, Head(ss)),
                        schema |-> ApplySchema(db.schema, Head(ss))], Tail(ss))

RECURSIVE AllRun(_, _)
AllRun(sc, ss) ==
    IF ss = <<>> THEN TRUE
    ELSE StmtRuns(sc, Head(ss)) /\ AllRun(ApplySchema(sc, Head(ss)), Tail(ss))

NoRow == Row("", "", 0, 0)

BaseSchemaStmts_DropOnly == << Stmt("drop", "market_data", NoRow) >>

\* DatabaseManager.initialize_schema: DROP TABLE IF EXISTS market_data, CREATE
BaseSchemaStmts ==
    << Stmt("drop", "market_data", NoRow), Stmt("create", "market_data", NoRow) >>

\* EnhancedDatabaseManager.initialize_schema: the same, then kline_data
EnhancedSchemaStmts ==
    BaseSchemaStmts \o << Stmt("create", "kline_data", NoRow) >>

\* BinanceWebSocketClient._init_database: CREATE TABLE IF NOT EXISTS klines
InitDatabaseStmts == << Stmt("create", "klines", NoRow) >>

\* process_symbol_enhanced, one candle: market_data then kline_data
EnhancedCandleStmts(r) ==
    << Stmt("insert_or_ignore", "market_data", r),
       Stmt("insert_or_replace", "kline_data", r) >>

\* initialize_market_data.process_symbol, one candle: market_data only
BaselineCandleStmts(r) == << Stmt("insert_or_ignore", "market_data", r) >>

\* _save_kline: klines
StreamCandleStmts(r) == << Stmt("insert_or_replace", "klines", r) >>

IsInsert(s) == s.kind \in {"insert_or_ignore", "insert_or_replace"}

RECURSIVE LogWrites(_, _)
LogWrites(ws, ss) ==
    IF ss = <<>> THEN ws
    ELSE LET s == Head(ss)
             ws1 == CASE IsInsert(s) -> Append(ws, [table |-> s.table, row |-> s.row])
                      [] s.kind = "drop" -> SelectSeq(ws, LAMBDA w : w.table # s.table)
                      [] OTHER -> ws
         IN LogWrites(ws1, Tail(ss))

RunStmts(ss) ==
    /\ AllRun(schema, ss)
    /\ LET db == ApplyAllStmts([tables |-> tables, schema |-> schema], ss) IN
         /\ tables' = db.tables
         /\ schema' = db.schema
    /\ writes' = LogWrites(writes, ss)
    /\ UNCHANGED <<poolVars, execVars, streamVars, cacheVars, loadVars, discVars, callVars>>

StoreRows(tf) == {Row("A", tf, ot, c) : ot \in 1..MaxTime, c \in 1..MaxClose}

StoreInitializeSchema == RunStmts(BaseSchemaStmts)
StoreInitializeSchemaEnhanced == RunStmts(EnhancedSchemaStmts)
StoreInitDatabase == RunStmts(InitDatabaseStmts)
StoreWriteEnhanced ==
    \E r \in StoreRows("1h") : Len(writes) + 2 <= MaxWrites /\ RunStmts(EnhancedCandleStmts(r))
StoreWriteBaseline ==
    \E r \in StoreRows("1h") : Len(writes) < MaxWrites /\ RunStmts(BaselineCandleStmts(r))
StoreSaveKline ==
    \E r \in StoreRows("1m") : Len(writes) < MaxWrites /\ RunStmts(StreamCandleStmts(r))

InitStore == PoolIdle /\ StoreEmpty({}) /\ ExecIdle /\ ClientIdle

NextStore ==
    \/ StoreInitializeSchema \/ StoreInitializeSchemaEnhanced \/ StoreInitDatabase
    \/ StoreWriteEnhanced \/ StoreWriteBaseline \/ StoreSaveKline

SpecStore == InitStore /\ [][NextStore]_vars

(***************************************************************************)
(* BinanceWebSocketClient: start, stop and the subscription threads.       *)
(* A subscription thread runs run_websocket; the on_close callback runs in *)
(* that thread when run_forever tears its connection down.  run_forever    *)
(* reports connection errors through on_error / on_close and returns.      *)
(***************************************************************************)
\* the symbol lists _get_active_symbols can return to start()
SymbolLists == { <<>>, <<"a">>, <<"a", "b">> }

\* max_connections = 10 in start()
max_connections == 10

FirstN_All(q, n) == q

\* symbols[:max_connections]
FirstN(q, n) == SubSeq(q, 1, IF Len(q) < n THEN Len(q) ELSE n)

\* _connect_websocket(symbol, interval): thread.start(), connection_threads.append
Spawn(sy) ==
    /\ ws_threads' = Append(ws_threads, [symbol |-> sy, pc |-> "while", ws |-> 0,
                                         by |-> "start"])
    /\ connection_threads' = Append(connection_threads, Len(ws_threads) + 1)

\* start(): "if self.running: return", running = True, the symbol list
StartBegin(syms) ==
    /\ ctl.pc = "idle"
    /\ IF running
       THEN /\ UNCHANGED running
            /\ ctl' = [ctl EXCEPT !.pc = "start_return"]
       ELSE /\ running' = TRUE
            /\ ctl' = [ctl EXCEPT !.pc = "start_loop",
                                   !.todo = FirstN(syms, max_connections)]
    /\ UNCHANGED <<active_websockets, connection_threads, ws_threads, socks>>
    /\ UNCHANGED <<dbVars, histVars, discVars, callVars, loadVars, cacheVars>>

\* one turn of "for symbol in symbols[:max_connections]"
StartTurn ==
    /\ ctl.pc = "start_loop"
    /\ ctl.todo # <<>>
    /\ Spawn(Head(ctl.todo))
    /\ ctl' = [ctl EXCEPT !.todo = Tail(ctl.todo)]
    /\ UNCHANGED <<running, active_websockets, socks>>
    /\ UNCHANGED <<dbVars, histVars, discVars, callVars, loadVars, cacheVars>>

\* the same turn, explored while the model has threads left
StartConnect == Len(ws_threads) < MaxWsThreads /\ StartTurn

StartEnd ==
    /\ ctl.pc = "start_loop"
    /\ ctl.todo = <<>>
    /\ ctl' = [ctl EXCEPT !.pc = "idle"]
    /\ UNCHANGED <<running, active_websockets, connection_threads, ws_threads,
                   socks>>
    /\ UNCHANGED <<dbVars, histVars, discVars, callVars, loadVars, cacheVars>>

\* "if self.running: ... return": start() returns to its caller
StartReturn ==
    /\ ctl.pc = "start_return"
    /\ ctl' = [ctl EXCEPT !.pc = "idle"]
    /\ UNCHANGED <<running, active_websockets, connection_threads, ws_threads,
                   socks>>
    /\ UNCHANGED <<dbVars, histVars, discVars, callVars, loadVars, cacheVars>>

\* stop(): "if not self.running: return", running = False
StopBegin ==
    /\ ctl.pc = "idle"
    /\ running' = FALSE
    /\ ctl' = IF running THEN [ctl EXCEPT !.pc = "stop_close", !.stopped = TRUE]
              ELSE [ctl EXCEPT !.pc = "stop_return"]
    /\ UNCHANGED <<active_websockets, connection_threads, ws_threads, socks>>
    /\ UNCHANGED <<dbVars, histVars, discVars, callVars, loadVars, cacheVars>>

\* with websocket_lock: ws.close() for every registered socket
StopClose ==
    /\ ctl.pc = "stop_close"
    /\ socks' = [w \in 1..Len(socks) |->
                   IF socks[w].state = "open"
                      /\ \E sy \in StreamSymbols : active_websockets[sy] = w
                   THEN [socks[w] EXCEPT !.state = "closed"]
                   ELSE socks[w]]
    /\ ctl' = [ctl EXCEPT !.pc = "stop_join"]
    /\ UNCHANGED <<running, active_websockets, connection_threads, ws_threads>>
    /\ UNCHANGED <<dbVars, histVars, discVars, callVars, loadVars, cacheVars>>

\* the joins (each returns when its thread ended or after 2 s), then the
\* two clear() calls
StopClear ==
    /\ ctl.pc = "stop_join"
    /\ active_websockets' = [sy \in StreamSymbols |-> 0]
    /\ connection_threads' = <<>>
    /\ ctl' = [ctl EXCEPT !.pc = "stop_return"]
    /\ UNCHANGED <<running, ws_threads, socks>>
    /\ UNCHANGED <<dbVars, histVars, discVars, callVars, loadVars, cacheVars>>

\* stop() returns to its caller
StopReturn ==
    /\ ctl.pc = "stop_return"
    /\ ctl' = [ctl EXCEPT !.pc = "idle"]
    /\ UNCHANGED <<running, active_websockets, connection_threads, ws_threads,
                   socks>>
    /\ UNCHANGED <<dbVars, histVars, discVars, callVars, loadVars, cacheVars>>

\* run_websocket: "while self.running:"
WsWhile(t) ==
    /\ ws_threads[t].pc = "while"
    /\ ws_threads' = [ws_threads EXCEPT ![t].pc = IF running THEN "connect" ELSE "exit"]
    /\ UNCHANGED <<running, active_websockets, connection_threads, socks, ctl>>
    /\ UNCHANGED <<dbVars, histVars, discVars, callVars, loadVars, cacheVars>>

\* WebSocketApp(...), active_websockets[symbol] = ws, ws.run_forever(): the
\* connection attempt.  A connection delivers the candles that complete
\* after it was opened (seen: the open_time of the last one it delivered).
WsConnect(t) ==
    /\ ws_threads[t].pc = "connect"
    /\ Len(socks) < MaxSocks
    /\ socks' = Append(socks, [symbol |-> ws_threads[t].symbol, thread |-> t,
                               state |-> "open", seen |-> feedT])
    /\ active_websockets' = [active_websockets EXCEPT ![ws_threads[t].symbol] = Len(socks) + 1]
    /\ ws_threads' = [ws_threads EXCEPT ![t].pc = "run", ![t].ws = Len(socks) + 1]
    /\ UNCHANGED <<running, connection_threads, ctl>>
    /\ UNCHANGED <<dbVars, histVars, discVars, callVars, loadVars, cacheVars>>

\* the stream fails or the remote end closes it ("lost": while running)
Disconnect(w) ==
    /\ socks[w].state = "open"
    /\ socks' = [socks EXCEPT ![w].state = IF running THEN "lost" ELSE "closed"]
    /\ UNCHANGED <<running, active_websockets, connection_threads, ws_threads, ctl>>
    /\ UNCHANGED <<dbVars, histVars, discVars, callVars, loadVars, cacheVars>>

WsOnClose_KeepEntry(t) ==
    /\ ws_threads[t].pc = "run"
    /\ socks[ws_threads[t].ws].state \in {"closed", "lost"}
    /\ active_websockets' = active_websockets
    /\ ws_threads' = [ws_threads EXCEPT ![t].pc = IF running THEN "on_close_sleep"
                                                  ELSE "after_run",
                                        ![t].ws = 0]
    /\ UNCHANGED <<running, connection_threads, socks, ctl>>
    /\ UNCHANGED <<dbVars, histVars, discVars, callVars, loadVars, cacheVars>>

\* on_close: "if self.running:" pop the symbol's entry, else nothing
WsOnClose(t) ==
    /\ ws_threads[t].pc = "run"
    /\ socks[ws_threads[t].ws].state \in {"closed", "lost"}
    /\ IF running
       THEN /\ active_websockets' = [active_websockets EXCEPT ![ws_threads[t].symbol] = 0]
            /\ ws_threads' = [ws_threads EXCEPT ![t].pc = "on_close_sleep", ![t].ws = 0]
       ELSE /\ active_websockets' = active_websockets
            /\ ws_threads' = [ws_threads EXCEPT ![t].pc = "after_run", ![t].ws = 0]
    /\ UNCHANGED <<running, connection_threads, socks, ctl>>
    /\ UNCHANGED <<dbVars, histVars, discVars, callVars, loadVars, cacheVars>>

\* on_close after time.sleep(5): self._connect_websocket(symbol, interval)
WsOnCloseReconnect(t) ==
    /\ ws_threads[t].pc = "on_close_sleep"
    /\ Len(ws_threads) < MaxWsThreads
    /\ ws_threads' = Append([ws_threads EXCEPT ![t].pc = "after_run"],
                            [symbol |-> ws_threads[t].symbol, pc |-> "while", ws |-> 0,
                             by |-> "on_close"])
    /\ connection_threads' = Append(connection_threads, Len(ws_threads) + 1)
    /\ UNCHANGED <<running, active_websockets, socks, ctl>>
    /\ UNCHANGED <<dbVars, histVars, discVars, callVars, loadVars, cacheVars>>

\* run_forever returned: "if not self.running: break", else sleep(5) and loop
WsAfterRun(t) ==
    /\ ws_threads[t].pc = "after_run"
    /\ ws_threads' = [ws_threads EXCEPT ![t].pc = IF running THEN "while" ELSE "exit"]
    /\ UNCHANGED <<running, active_websockets, connection_threads, socks, ctl>>
    /\ UNCHANGED <<dbVars, histVars, discVars, callVars, loadVars, cacheVars>>

InitStream == PoolIdle /\ StoreEmpty(TableNames) /\ ExecIdle /\ ClientIdle

StreamStart == \E syms \in SymbolLists : StartBegin(syms)
StreamWhile == \E t \in 1..Len(ws_threads) : WsWhile(t)
StreamConnect == \E t \in 1..Len(ws_threads) : WsConnect(t)
StreamDisconnect == \E w \in 1..Len(socks) : Disconnect(w)
StreamOnClose == \E t \in 1..Len(ws_threads) : WsOnClose(t)
StreamOnCloseReconnect == \E t \in 1..Len(ws_threads) : WsOnCloseReconnect(t)
StreamAfterRun == \E t \in 1..Len(ws_threads) : WsAfterRun(t)

NextStream ==
    \/ StreamStart \/ StartConnect \/ StartEnd \/ StartReturn
    \/ StopBegin \/ StopClose \/ StopClear \/ StopReturn
    \/ StreamWhile \/ StreamConnect \/ StreamDisconnect
    \/ StreamOnClose \/ StreamOnCloseReconnect \/ StreamAfterRun

SpecStream == InitStream /\ [][NextStream]_vars

\* a subscription thread is a started thread of the interpreter: its next
\* statement is executed and its time.sleep(5) ends; start() and stop() are
\* the caller's and are not forced
ThreadStep(t) ==
    /\ t <= Len(ws_threads)
    /\ WsWhile(t) \/ WsConnect(t) \/ WsOnClose(t) \/ WsOnCloseReconnect(t)
       \/ WsAfterRun(t)

ThreadFairness(t) == WF_vars(ThreadStep(t))

\* one session of the client: start() is not called again after a stop()
SessionStart == ~ctl.stopped /\ StreamStart

NextSession ==
    \/ SessionStart \/ StartConnect \/ StartEnd \/ StartReturn
    \/ StopBegin \/ StopClose \/ StopClear \/ StopReturn
    \/ StreamWhile \/ StreamConnect \/ StreamDisconnect
    \/ StreamOnClose \/ StreamOnCloseReconnect \/ StreamAfterRun

SpecSession == InitStream /\ [][NextSession]_vars

SpecSessionFair == SpecSession /\ \A t \in 1..MaxWsThreads : ThreadFairness(t)

(***************************************************************************)
(* BinanceWebSocketClient: the rolling cache (self.klines), fed by         *)
(* on_message and rebuilt from the klines table by get_historical_klines.  *)
(* The stream of symbol "A", interval "1m" is followed; the feed delivers  *)
(* completed candles in time order.  The klines table may hold rows of an  *)
(* earlier run of the process (the database is a file).                    *)
(***************************************************************************)
\* "if len(...) > 100": the bound of a rolling cache
CacheBound == 100

\* get_historical_klines(symbol, interval, limit=100)
DefaultLimit == 100

Limits == {1, DefaultLimit, DefaultLimit + 1}

InitStored == {0, CacheBound, CacheBound + 1}

StreamThread == 1
ReaderThread == 2

FeedClose(ot) == 1 + (ot % MaxClose)

FeedRow(ot) == Row("A", "1m", ot, FeedClose(ot))

\* new_kline = {'open_time': kline['t'], ..., 'close': float(kline['c']), ...}
CacheEntry(r) == [open_time |-> r.open_time, close |-> r.close]

\* append(new_kline); if len(...) > 100: pop(0)
CacheAppend(list, k) ==
    LET l == Append(list, k) IN IF Len(l) > CacheBound THEN Tail(l) ELSE l

OnMessage_SaveOpen(closed, saveOk) ==
    LET r == FeedRow(feedT + 1) IN
    /\ feedT + 1 <= CacheBound + MaxExtra
    /\ saveOk \/ klines["A"].appends < MaxSaveFailures
    /\ (closed /\ gh.pc # "idle") => gh.during < MaxInFlight
    /\ locks["price_lock"] = 0 /\ (closed => locks["klines_lock"] = 0)
    /\ gh' = IF closed /\ gh.pc # "idle" THEN [gh EXCEPT !.during = @ + 1] ELSE gh
    /\ prices' = [prices EXCEPT !["A"] = r.close]
    /\ IF TRUE
       THEN /\ GetConnStep(StreamThread, "kline_data")
            /\ tables' = IF saveOk
                         THEN ApplyAllTables(tables, StreamCandleStmts(r))
                         ELSE tables
            /\ klines' = [klines EXCEPT !["A"] =
                            [present |-> TRUE,
                             list |-> CacheAppend(klines["A"].list, CacheEntry(r)),
                             from |-> IF klines["A"].present THEN klines["A"].from
                                      ELSE "stream",
                             appends |-> klines["A"].appends + 1]]
            /\ feedT' = IF closed THEN feedT + 1 ELSE feedT
       ELSE UNCHANGED <<poolVars, tables, klines, feedT>>
    /\ UNCHANGED <<schema, execVars, histVars, discVars, callVars, loadVars, streamVars>>

\* on_message for a kline message of the symbol: the price, and for a
\* completed candle _save_kline (whose failure is only logged) and the cache.
\* A failing save is explored for the first MaxSaveFailures appends of a cache,
\* and at most MaxInFlight completed candles arrive during one
\* get_historical_klines call.
OnMessage(closed, saveOk) ==
    LET r == FeedRow(feedT + 1) IN
    /\ feedT + 1 <= CacheBound + MaxExtra
    /\ saveOk \/ klines["A"].appends < MaxSaveFailures
    /\ (closed /\ gh.pc # "idle") => gh.during < MaxInFlight
    /\ locks["price_lock"] = 0 /\ (closed => locks["klines_lock"] = 0)
    /\ gh' = IF closed /\ gh.pc # "idle" THEN [gh EXCEPT !.during = @ + 1] ELSE gh
    /\ prices' = [prices EXCEPT !["A"] = r.close]
    /\ IF closed
       THEN /\ GetConnStep(StreamThread, "kline_data")
            /\ tables' = IF saveOk
                         THEN ApplyAllTables(tables, StreamCandleStmts(r))
                         ELSE tables
            /\ klines' = [klines EXCEPT !["A"] =
                            [present |-> TRUE,
                             list |-> CacheAppend(klines["A"].list, CacheEntry(r)),
                             from |-> IF klines["A"].present THEN klines["A"].from
                                      ELSE "stream",
                             appends |-> klines["A"].appends + 1]]
            /\ feedT' = feedT + 1
       ELSE UNCHANGED <<poolVars, tables, klines, feedT>>
    /\ UNCHANGED <<schema, execVars, histVars, discVars, callVars, loadVars, streamVars>>

\* the open_times 1..hi in descending order
DescTimes(hi) == [i \in 1..hi |-> hi + 1 - i]

\* the rows in descending open_time (open_time is unique per symbol and
\* timeframe: the primary key), at most limit of them
SortDescLimit(rows, limit) ==
    LET ts == SelectSeq(DescTimes(CacheBound + MaxExtra),
                        LAMBDA t : \E r \in rows : r.open_time = t)
    IN [i \in 1..(IF Len(ts) < limit THEN Len(ts) ELSE limit) |->
            CHOOSE r \in rows : r.open_time = ts[i]]

\* SELECT ... FROM klines WHERE symbol = ? AND timeframe = ?
\* ORDER BY open_time DESC LIMIT ?
SelectKlines(sy, tf, limit) ==
    SortDescLimit({r \in tables["klines"] : r.symbol = sy /\ r.timeframe = tf}, limit)

\* get_historical_klines: "with self.klines_lock:" is entered
GhEnter(limit) ==
    /\ gh.pc = "idle" /\ gp.pc = "idle"
    /\ Acquire("klines_lock", ReaderThread)
    /\ gh' = [pc |-> "check", during |-> 0, limit |-> limit, rows |-> <<>>,
              ret |-> "none", hit |-> FALSE, queried |-> FALSE]
    /\ UNCHANGED <<dbVars, histVars, discVars, loadVars, streamVars, gp, om>>
    /\ UNCHANGED <<klines, prices, feedT>>

GhCheck_HoldLock ==
    /\ gh.pc = "check"
    /\ gh' = IF klines["A"].present
             THEN [gh EXCEPT !.pc = "done", !.ret = "cache", !.hit = TRUE]
             ELSE [gh EXCEPT !.pc = "query"]
    /\ IF klines["A"].present THEN Release("klines_lock") ELSE UNCHANGED locks
    /\ UNCHANGED <<dbVars, histVars, discVars, loadVars, streamVars, gp, om>>
    /\ UNCHANGED <<klines, prices, feedT>>

\* "if symbol in self.klines and interval in ...: return ..." and the end
\* of the with block.  The value returned is the cached list object itself
\* ("cache") or None.
GhCheck ==
    /\ gh.pc = "check"
    /\ gh' = IF klines["A"].present
             THEN [gh EXCEPT !.pc = "done", !.ret = "cache", !.hit = TRUE]
             ELSE [gh EXCEPT !.pc = "query"]
    /\ Release("klines_lock")
    /\ UNCHANGED <<dbVars, histVars, discVars, loadVars, streamVars, gp, om>>
    /\ UNCHANGED <<klines, prices, feedT>>

\* the storage query; "if not rows: return None"; an exception returns None
GhQuery(ok) ==
    /\ gh.pc = "query"
    /\ GetConnStep(ReaderThread, "kline_data")
    /\ \E rows \in {IF ok THEN SelectKlines("A", "1m", gh.limit) ELSE <<>>} :
       gh' = IF rows = <<>> THEN [gh EXCEPT !.pc = "done", !.queried = TRUE]
             ELSE [gh EXCEPT !.pc = "store", !.queried = TRUE,
                             !.rows = [i \in 1..Len(rows) |-> CacheEntry(rows[i])]]
    /\ UNCHANGED <<storeVars, execVars, histVars, discVars, callVars, loadVars>>
    /\ UNCHANGED <<streamVars, klines, prices, feedT>>

\* the second "with self.klines_lock:" is entered
GhStoreEnter ==
    /\ gh.pc = "store"
    /\ Acquire("klines_lock", ReaderThread)
    /\ gh' = [gh EXCEPT !.pc = "store_locked"]
    /\ UNCHANGED <<dbVars, histVars, discVars, loadVars, streamVars, gp, om>>
    /\ UNCHANGED <<klines, prices, feedT>>

\* self.klines[symbol][interval] = klines; return klines
GhStore ==
    /\ gh.pc = "store_locked"
    /\ klines' = [klines EXCEPT !["A"] =
                    [present |-> TRUE, list |-> gh.rows, from |-> "storage",
                     appends |-> 0]]
    /\ gh' = [gh EXCEPT !.pc = "done", !.ret = "cache", !.rows = <<>>]
    /\ Release("klines_lock")
    /\ UNCHANGED <<dbVars, histVars, discVars, loadVars, streamVars, gp, om>>
    /\ UNCHANGED <<prices, feedT>>

GhReturn ==
    /\ gh.pc = "done"
    /\ gh' = GhIdle
    /\ UNCHANGED <<dbVars, histVars, discVars, callVars, loadVars, streamVars>>
    /\ UNCHANGED <<klines, prices, feedT>>

\* what the ticker/price request of get_current_price comes back with
PriceReplies ==
    [kind : {"network_error", "http_error", "bad_payload"}, price : {NoPrice}]
        \cup [kind : {"ok"}, price : 1..MaxClose]

\* BinanceWebSocketClient: "if 'price' in data: price = float(data['price'])",
\* otherwise None; an error body carries no price and an exception is caught
FetchedPrice(reply) == IF reply.kind = "ok" THEN reply.price ELSE NoPrice

\* get_current_price: the first "with self.price_lock:" is entered
GpEnter(sy) ==
    /\ gp.pc = "idle" /\ gh.pc = "idle"
    /\ Acquire("price_lock", ReaderThread)
    /\ gp' = [pc |-> "check", client |-> "baseline", symbol |-> sy,
              hit |-> FALSE, requested |-> FALSE, fetched |-> NoPrice,
              cached |-> 0, ret |-> NoPrice]
    /\ UNCHANGED <<dbVars, histVars, discVars, loadVars, streamVars, cacheVars>>
    /\ UNCHANGED om

\* "if symbol in self.prices: return self.prices[symbol]"
GpCheck ==
    /\ gp.pc = "check"
    /\ gp' = IF prices[gp.symbol] # 0
             THEN [gp EXCEPT !.pc = "done", !.hit = TRUE, !.ret = prices[gp.symbol]]
             ELSE [gp EXCEPT !.pc = "request"]
    /\ Release("price_lock")
    /\ UNCHANGED <<dbVars, histVars, discVars, loadVars, streamVars, cacheVars>>
    /\ UNCHANGED om

\* requests.get(ticker/price); without a price the call returns None.
\* cached is the symbol's cache entry at the moment the reply was produced.
GpRequest(reply) ==
    /\ gp.pc = "request"
    /\ gp' = [gp EXCEPT !.pc = IF FetchedPrice(reply) = NoPrice THEN "done"
                                ELSE "store",
                        !.requested = TRUE, !.fetched = FetchedPrice(reply),
                        !.cached = prices[gp.symbol]]
    /\ UNCHANGED <<dbVars, histVars, discVars, loadVars, streamVars, cacheVars>>
    /\ UNCHANGED <<locks, om>>

\* the second "with self.price_lock:" is entered
GpStoreEnter ==
    /\ gp.pc = "store"
    /\ Acquire("price_lock", ReaderThread)
    /\ gp' = [gp EXCEPT !.pc = "store_locked"]
    /\ UNCHANGED <<dbVars, histVars, discVars, loadVars, streamVars, cacheVars>>
    /\ UNCHANGED om

\* self.prices[symbol] = price; return price
GpStore ==
    /\ gp.pc = "store_locked"
    /\ prices' = [prices EXCEPT ![gp.symbol] = gp.fetched]
    /\ gp' = [gp EXCEPT !.pc = "done", !.ret = gp.fetched]
    /\ Release("price_lock")
    /\ UNCHANGED <<dbVars, histVars, discVars, loadVars, streamVars>>
    /\ UNCHANGED <<klines, feedT, gh, om>>

GpReturn ==
    /\ gp.pc = "done"
    /\ gp' = GpIdle
    /\ UNCHANGED <<dbVars, histVars, discVars, loadVars, streamVars, cacheVars>>
    /\ UNCHANGED <<locks, om>>

InitCache ==
    /\ PoolIdle /\ ExecIdle /\ writes = <<>> /\ StreamIdle /\ LoadIdle /\ DiscIdle
    /\ CallIdle
    /\ schema = TableNames
    /\ klines = [sy \in CacheSymbols |-> NoCache]
    /\ prices = [sy \in CacheSymbols |-> 0]
    /\ gh = GhIdle
    /\ \E n \in InitStored :
         /\ feedT = n
         /\ tables = [tb \in TableNames |->
                        IF tb = "klines" THEN {FeedRow(ot) : ot \in 1..n} ELSE {}]

CacheOnMessage == \E closed \in BOOLEAN, saveOk \in BOOLEAN : OnMessage(closed, saveOk)
CacheGetHistorical == \E limit \in Limits : GhEnter(limit)
CacheQuery == \E ok \in BOOLEAN : GhQuery(ok)
CacheGetPrice == \E sy \in CacheSymbols : GpEnter(sy)
CachePriceRequest == \E reply \in PriceReplies : GpRequest(reply)

NextCache ==
    \/ CacheOnMessage
    \/ CacheGetHistorical \/ GhCheck \/ CacheQuery \/ GhStoreEnter \/ GhStore
    \/ GhReturn
    \/ CacheGetPrice \/ GpCheck \/ CachePriceRequest \/ GpStoreEnter \/ GpStore
    \/ GpReturn

SpecCache == InitCache /\ [][NextCache]_vars

(***************************************************************************)
(* The same callback and the same two getters with every "with lock:"      *)
(* block, storage statement and network request of on_message as a step of *)
(* its own, for the claims about what a thread holds while it waits.  The  *)
(* bounds on failing saves and on candles arriving during one              *)
(* get_historical_klines call are those of OnMessage.                      *)
(***************************************************************************)
\* a kline message arrives: "with self.price_lock:" is entered
OmPriceEnter(closed) ==
    /\ om.pc = "idle"
    /\ feedT + 1 <= CacheBound + MaxExtra
    /\ (closed /\ gh.pc # "idle") => gh.during < MaxInFlight
    /\ gh' = IF closed /\ gh.pc # "idle" THEN [gh EXCEPT !.during = @ + 1] ELSE gh
    /\ Acquire("price_lock", StreamThread)
    /\ om' = [pc |-> "price_locked", closed |-> closed, row |-> FeedRow(feedT + 1)]
    /\ UNCHANGED <<dbVars, histVars, discVars, loadVars, streamVars, gp>>
    /\ UNCHANGED <<klines, prices, feedT>>

\* self.prices[symbol.upper()] = float(kline['c']); "if kline['x']:"
OmPrice ==
    /\ om.pc = "price_locked"
    /\ prices' = [prices EXCEPT !["A"] = om.row.close]
    /\ Release("price_lock")
    /\ om' = IF om.closed THEN [om EXCEPT !.pc = "save"] ELSE OmIdle
    /\ UNCHANGED <<dbVars, histVars, discVars, loadVars, streamVars, gp>>
    /\ UNCHANGED <<klines, feedT, gh>>

\* self._save_kline(...): the statement, its failure only logged
OmSave(saveOk) ==
    /\ om.pc = "save"
    /\ saveOk \/ klines["A"].appends < MaxSaveFailures
    /\ GetConnStep(StreamThread, "kline_data")
    /\ tables' = IF saveOk THEN ApplyAllTables(tables, StreamCandleStmts(om.row))
                 ELSE tables
    /\ om' = [om EXCEPT !.pc = "append"]
    /\ UNCHANGED <<schema, execVars, histVars, discVars, loadVars, streamVars>>
    /\ UNCHANGED <<cacheVars, gp, locks>>

\* "with self.klines_lock:" is entered
OmAppendEnter ==
    /\ om.pc = "append"
    /\ Acquire("klines_lock", StreamThread)
    /\ om' = [om EXCEPT !.pc = "append_locked"]
    /\ UNCHANGED <<dbVars, histVars, discVars, loadVars, streamVars, cacheVars, gp>>

\* the append to the rolling cache, and the end of the callback
OmAppend ==
    /\ om.pc = "append_locked"
    /\ klines' = [klines EXCEPT !["A"] =
                    [present |-> TRUE,
                     list |-> CacheAppend(klines["A"].list, CacheEntry(om.row)),
                     from |-> IF klines["A"].present THEN klines["A"].from
                              ELSE "stream",
                     appends |-> klines["A"].appends + 1]]
    /\ feedT' = feedT + 1
    /\ Release("klines_lock")
    /\ om' = OmIdle
    /\ UNCHANGED <<dbVars, histVars, discVars, loadVars, streamVars, gp>>
    /\ UNCHANGED <<prices, gh>>

LocksOnMessage == \E closed \in BOOLEAN : OmPriceEnter(closed)
LocksSave == \E saveOk \in BOOLEAN : OmSave(saveOk)

NextLocks ==
    \/ LocksOnMessage \/ OmPrice \/ LocksSave \/ OmAppendEnter \/ OmAppend
    \/ CacheGetHistorical \/ GhCheck \/ CacheQuery \/ GhStoreEnter \/ GhStore
    \/ GhReturn
    \/ CacheGetPrice \/ GpCheck \/ CachePriceRequest \/ GpStoreEnter \/ GpStore
    \/ GpReturn

\* the client starts on a database that holds a full window of candles
InitLocks == InitCache /\ feedT >= CacheBound

SpecLocks == InitLocks /\ [][NextLocks]_vars

(***************************************************************************)
(* start() and stop() alone, with symbol lists shorter and longer than     *)
(* max_connections; the subscription threads are created and not followed. *)
(***************************************************************************)
ListedStreams == <<"a", "b", "c", "d", "e", "f", "g", "h", "i", "j", "k", "l">>

StartLists == {SubSeq(ListedStreams, 1, n) : n \in 0..Len(ListedStreams)}

StartCall == ~ctl.stopped /\ \E syms \in StartLists : StartBegin(syms)

NextStart ==
    \/ StartCall \/ StartTurn \/ StartEnd \/ StartReturn
    \/ StopBegin \/ StopClose \/ StopClear \/ StopReturn

SpecStart == InitStream /\ [][NextStart]_vars

(***************************************************************************)
(* One streaming session with its feed: every open connection of the       *)
(* symbol delivers the completed candles of the stream, in the order of    *)
(* the stream, to the on_message callback of its own thread.  feedT is the *)
(* latest candle any connection has delivered; every save succeeds.        *)
(***************************************************************************)
MaxFeed == 2

\* on_message for the next completed candle on connection w
WsOnMessage(w) ==
    LET r == FeedRow(socks[w].seen + 1) IN
    /\ socks[w].state = "open" /\ socks[w].symbol = "a"
    /\ r.open_time <= MaxFeed
    /\ socks' = [socks EXCEPT ![w].seen = r.open_time]
    /\ prices' = [prices EXCEPT !["A"] = r.close]
    /\ GetConnStep(socks[w].thread, "kline_data")
    /\ tables' = ApplyAllTables(tables, StreamCandleStmts(r))
    /\ klines' = [klines EXCEPT !["A"] =
                    [present |-> TRUE,
                     list |-> CacheAppend(klines["A"].list, CacheEntry(r)),
                     from |-> IF klines["A"].present THEN klines["A"].from
                              ELSE "stream",
                     appends |-> klines["A"].appends + 1]]
    /\ feedT' = IF r.open_time > feedT THEN r.open_time ELSE feedT
    /\ UNCHANGED <<running, active_websockets, connection_threads, ws_threads, ctl>>
    /\ UNCHANGED <<schema, execVars, histVars, discVars, callVars, loadVars, gh>>

FeedMessage == \E w \in 1..Len(socks) : WsOnMessage(w)

NextFeed == NextSession \/ FeedMessage

SpecFeed == InitStream /\ [][NextFeed]_vars

(***************************************************************************)
(* Historical backfill: initialize_market_data_enhanced                    *)
(* (PerformanceEnhancedWebSocketClient, "enhanced") and                    *)
(* initialize_market_data (BinanceWebSocketClient, "baseline").  The       *)
(* calling thread prepares the schema, submits one task per symbol of a    *)
(* batch to a thread pool and collects the futures as they complete.  One  *)
(* execute_query call of a task is one step whose outcome (it returns, or  *)
(* it raises once its retries are used up) is the environment's; the retry *)
(* loop itself is the subject of SpecExec.  One run is followed, on a      *)
(* fresh database file or on one that an earlier run has filled.           *)
(***************************************************************************)
Variants == {"enhanced", "baseline"}

Managers == {"base", "enhanced"}

SymbolInputs == {<<>>, <<"A">>, <<"A", "B", "C">>}

FetchOutcomes == {"candles", "empty", "network_error", "malformed"}

MainThread == 0

\* initialize_market_data_enhanced: batch_size = 20, max_workers = 12
batch_size == 20
max_workers == 12

\* initialize_market_data: batch_size = 10, ThreadPoolExecutor(max_workers=5)
baseline_batch_size == 10
baseline_max_workers == 5

BatchSize(v) == IF v = "enhanced" THEN batch_size ELSE baseline_batch_size

MaxWorkers(v) == IF v = "enhanced" THEN max_workers ELSE baseline_max_workers

\* PerformanceEnhancedWebSocketClient._init_database: CREATE TABLE IF NOT
\* EXISTS kline_data
EnhancedInitDatabaseStmts == << Stmt("create", "kline_data", NoRow) >>

EarlierRun == 0
ThisRun == 1

FetchedKlines_OneKey(sym, run) ==
    [i \in 1..MaxCandles |-> Row("A", "1h", i, IF sym = "A" THEN 1 ELSE MaxClose)]

\* the candles the exchange returns for a symbol; the values differ from
\* one run to the next
FetchedKlines(sym, run) ==
    [i \in 1..MaxCandles |-> Row(sym, "1h", i, 1 + ((i + run) % MaxClose))]

FetchReturn_Partial(outcome, sym, run) ==
    CASE outcome = "candles" -> FetchedKlines(sym, run)
      [] outcome = "malformed" -> SubSeq(FetchedKlines(sym, run), 1, 1)
      [] OTHER -> <<>>

\* load_historical_data: the parsed candles, or [] when the request, the
\* status check or the parsing of any candle raises
FetchReturn(outcome, sym, run) ==
    IF outcome = "candles" THEN FetchedKlines(sym, run) ELSE <<>>

\* the statements of a task, in order: for each candle the inserts of its
\* variant
CandleStmts(v, r) ==
    IF v = "enhanced" THEN EnhancedCandleStmts(r) ELSE BaselineCandleStmts(r)

RECURSIVE TaskStmts(_, _)
TaskStmts(v, kl) ==
    IF kl = <<>> THEN <<>> ELSE CandleStmts(v, Head(kl)) \o TaskStmts(v, Tail(kl))

\* "if not klines: return False, ..." (enhanced); the baseline task returns
\* True after a loop over no candle
EmptyResult(v) == IF v = "enhanced" THEN "false" ELSE "true"

Submitted == {sy \in BackfillSymbols : tasks[sy].pc # "none"}

RunningTasks == {sy \in BackfillSymbols : tasks[sy].pc = "write"}

WorkerFree(w) == \A sy \in RunningTasks : tasks[sy].thread # w

\* the workers of the pool are interchangeable: the idle worker of lowest
\* index takes the next task
TakesTask(w) == WorkerFree(w) /\ \A u \in Threads : u < w => ~WorkerFree(u)

\* the executor's work queue is first in, first out
FirstQueued(sy) ==
    \E j \in 1..Len(bf.symbols) :
        /\ bf.symbols[j] = sy
        /\ tasks[sy].pc = "queued"
        /\ \A k \in 1..(j - 1) : tasks[bf.symbols[k]].pc # "queued"

\* initialize_schema(), _init_database(), the symbol list, the counters.
\* nOk of the schema statements return and the next one raises; a failure
\* of _init_database is logged and swallowed.
BfBegin(v, mgr, syms, nOk, initOk) ==
    LET schemaStmts == IF mgr = "enhanced" THEN EnhancedSchemaStmts
                       ELSE BaseSchemaStmts
        raised == nOk < Len(schemaStmts)
        ran == SubSeq(schemaStmts, 1, nOk) \o
               (IF v = "enhanced" /\ ~raised /\ initOk
                THEN EnhancedInitDatabaseStmts ELSE <<>>)
        run == [BfIdle EXCEPT !.variant = v]
    IN
    /\ bf.pc = "idle"
    /\ nOk \in 0..Len(schemaStmts)
    /\ GetConnStep(MainThread, "market_data")
    /\ tables' = ApplyAllTables(tables, ran)
    /\ schema' = ApplyAllSchema(schema, ran)
    /\ bf' = CASE raised -> [run EXCEPT !.pc = "raised", !.ret = "raise"]
               [] ~raised /\ syms = <<>> -> [run EXCEPT !.pc = "done", !.ret = "None"]
               [] OTHER -> [run EXCEPT !.pc = "submit", !.symbols = syms]
    /\ tasks' = [sy \in BackfillSymbols |-> NoTask]
    /\ UNCHANGED <<execVars, histVars, discVars, callVars, streamVars, cacheVars>>

\* batch = self.symbols[i:i + batch_size]; one executor.submit per symbol
BfSubmit ==
    LET last == IF bf.i + BatchSize(bf.variant) < Len(bf.symbols)
                THEN bf.i + BatchSize(bf.variant) ELSE Len(bf.symbols)
        batch == {bf.symbols[j] : j \in (bf.i + 1)..last}
    IN
    /\ bf.pc = "submit"
    /\ tasks' = [sy \in BackfillSymbols |->
                    IF sy \in batch THEN [NoTask EXCEPT !.pc = "queued"]
                    ELSE tasks[sy]]
    /\ bf' = [bf EXCEPT !.pc = "collect", !.i = bf.i + BatchSize(bf.variant)]
    /\ UNCHANGED <<dbVars, histVars, discVars, callVars, streamVars, cacheVars>>

\* what the task knows of its fetch: load_historical_data logs the cause of
\* a failure and returns []
Fetched(outcome) == IF outcome = "candles" THEN "candles" ELSE "failed"

\* a pool worker takes the task and runs it up to its first statement:
\* load_historical_data and "if not klines"
TaskFetch(sy, w, outcome) ==
    LET kl == FetchReturn(outcome, sy, ThisRun) IN
    /\ bf.pc = "collect"
    /\ FirstQueued(sy)
    /\ TakesTask(w)
    /\ Cardinality(RunningTasks) < MaxWorkers(bf.variant)
    /\ tasks' = [tasks EXCEPT ![sy] =
                    IF kl = <<>>
                    THEN [@ EXCEPT !.pc = "done", !.fetch = Fetched(outcome),
                                   !.result = EmptyResult(bf.variant)]
                    ELSE [@ EXCEPT !.pc = "write", !.thread = w,
                                   !.fetch = Fetched(outcome), !.klines = kl]]
    /\ UNCHANGED <<bf, dbVars, histVars, discVars, callVars, streamVars, cacheVars>>

\* the next execute_query of the task: it returns and the row is committed,
\* or it raises and the task's except clause returns False; after the last
\* statement the task returns True
TaskWrite(sy, ok) ==
    LET t == tasks[sy]
        ss == TaskStmts(bf.variant, t.klines)
    IN
    /\ t.pc = "write"
    /\ ok => StmtRuns(schema, ss[t.next])
    /\ GetConnStep(t.thread, "market_data")
    /\ tables' = IF ok THEN ApplyTables(tables, ss[t.next]) ELSE tables
    /\ tasks' = [tasks EXCEPT ![sy] =
                    CASE ~ok -> [@ EXCEPT !.pc = "done", !.thread = 0,
                                          !.result = "false"]
                      [] ok /\ t.next = Len(ss) ->
                            [@ EXCEPT !.pc = "done", !.thread = 0,
                                      !.wrote = @ + 1, !.result = "true"]
                      [] OTHER -> [@ EXCEPT !.next = @ + 1, !.wrote = @ + 1]]
    /\ UNCHANGED <<schema, bf, execVars, histVars, discVars, callVars, streamVars, cacheVars>>

BfCollect_SuccessOnly(sy) ==
    LET t == tasks[sy]
        counted == IF bf.variant # "enhanced" THEN bf
                   ELSE IF t.result = "true"
                        THEN [bf EXCEPT !.processed = @ + 1, !.successful = @ + 1]
                        ELSE [bf EXCEPT !.failed = @ + 1]
        batchDone == \A x \in Submitted \ {sy} : tasks[x].collected
    IN
    /\ bf.pc = "collect"
    /\ t.pc = "done" /\ ~t.collected
    /\ tasks' = [tasks EXCEPT ![sy].collected = TRUE]
    /\ bf' = [counted EXCEPT !.pc = IF ~batchDone THEN "collect"
                                    ELSE IF bf.i < Len(bf.symbols) THEN "submit"
                                    ELSE "return"]
    /\ UNCHANGED <<dbVars, histVars, discVars, callVars, streamVars, cacheVars>>

\* one turn of "for future in as_completed(futures)"; the baseline keeps no
\* counters.  future.result() does not raise, since the task catches every
\* Exception.  After the last future of the batch: the next batch, or the
\* end of the loop.
BfCollect(sy) ==
    LET t == tasks[sy]
        counted == IF bf.variant # "enhanced" THEN bf
                   ELSE IF t.result = "true"
                        THEN [bf EXCEPT !.processed = @ + 1, !.successful = @ + 1]
                        ELSE [bf EXCEPT !.processed = @ + 1, !.failed = @ + 1]
        batchDone == \A x \in Submitted \ {sy} : tasks[x].collected
    IN
    /\ bf.pc = "collect"
    /\ t.pc = "done" /\ ~t.collected
    /\ tasks' = [tasks EXCEPT ![sy].collected = TRUE]
    /\ bf' = [counted EXCEPT !.pc = IF ~batchDone THEN "collect"
                                    ELSE IF bf.i < Len(bf.symbols) THEN "submit"
                                    ELSE "return"]
    /\ UNCHANGED <<dbVars, histVars, discVars, callVars, streamVars, cacheVars>>

ReturnValue_Processed(b) ==
    IF b.variant # "enhanced" THEN "None"
    ELSE IF b.processed > 0 THEN "True" ELSE "False"

\* "return successful_count > 0"; the baseline returns nothing
ReturnValue(b) ==
    IF b.variant # "enhanced" THEN "None"
    ELSE IF b.successful > 0 THEN "True" ELSE "False"

BfReturn ==
    /\ bf.pc = "return"
    /\ bf' = [bf EXCEPT !.pc = "done", !.ret = ReturnValue(bf)]
    /\ UNCHANGED <<tasks, dbVars, histVars, discVars, callVars, streamVars, cacheVars>>

\* PerformanceEnhancedWebSocketClient.get_historical_klines:
\* "return self.klines.get(f'{symbol}_{timeframe}', [])", called by the signal
\* loop once the client has been started
EnhancedGetHistoricalKlines(sy) ==
    /\ bf.pc = "done" /\ bf.variant = "enhanced"
    /\ gh.pc = "idle" /\ gp.pc = "idle"
    /\ gh' = [pc |-> "done", during |-> 0, limit |-> 0,
              rows |-> IF klines[sy].present THEN klines[sy].list ELSE <<>>,
              ret |-> IF klines[sy].present THEN "cache" ELSE "default",
              hit |-> klines[sy].present, queried |-> FALSE]
    /\ UNCHANGED <<loadVars, dbVars, histVars, discVars, callVars, streamVars>>
    /\ UNCHANGED <<klines, prices, feedT>>

\* PerformanceEnhancedWebSocketClient.get_current_price: always the request
\* (raise_for_status, float(data['price'])); every exception returns None
EnhancedGetCurrentPrice(sy, reply) ==
    /\ bf.pc = "done" /\ bf.variant = "enhanced"
    /\ gh.pc = "idle" /\ gp.pc = "idle"
    /\ gp' = [pc |-> "done", client |-> "enhanced", symbol |-> sy,
              hit |-> FALSE, requested |-> TRUE,
              fetched |-> FetchedPrice(reply), ret |-> FetchedPrice(reply)]
    /\ UNCHANGED <<loadVars, dbVars, histVars, discVars, streamVars, cacheVars>>
    /\ UNCHANGED <<locks, om>>

\* what an earlier run with the same symbols has left in the two tables
EarlierRows == {FetchedKlines("A", EarlierRun)[i] : i \in 1..MaxCandles}

InitBackfill ==
    /\ PoolIdle /\ ExecIdle /\ ClientIdle
    /\ \/ StoreEmpty({})
       \/ /\ schema = {"market_data", "kline_data"}
          /\ tables = [tb \in TableNames |->
                         IF tb \in schema THEN EarlierRows ELSE {}]

BackfillBegin ==
    \E v \in Variants, mgr \in Managers, syms \in SymbolInputs, nOk \in 0..3,
       initOk \in BOOLEAN : BfBegin(v, mgr, syms, nOk, initOk)
BackfillFetch ==
    \E sy \in BackfillSymbols, w \in Threads, outcome \in FetchOutcomes :
        TaskFetch(sy, w, outcome)
BackfillWrite == \E sy \in BackfillSymbols, ok \in BOOLEAN : TaskWrite(sy, ok)
BackfillCollect == \E sy \in BackfillSymbols : BfCollect(sy)

BackfillGetHistorical == \E sy \in CacheSymbols : EnhancedGetHistoricalKlines(sy)
BackfillGetPrice ==
    \E sy \in CacheSymbols, reply \in PriceReplies : EnhancedGetCurrentPrice(sy, reply)

NextBackfill ==
    \/ BackfillBegin \/ BfSubmit \/ BackfillFetch \/ BackfillWrite
    \/ BackfillCollect \/ BfReturn \/ BackfillGetHistorical \/ BackfillGetPrice
    \/ GhReturn \/ GpReturn

SpecBackfill == InitBackfill /\ [][NextBackfill]_vars

(***************************************************************************)
(* PerformanceEnhancedWebSocketClient: start(), stop() and is_running().   *)
(* start() runs the historical initialization above in the calling thread; *)
(* stop() may be called from another thread at any time.  One              *)
(* initialization is followed.                                             *)
(***************************************************************************)
\* "if self.running: return", self.running = True
EnhancedStartBegin ==
    /\ ctl.pc = "idle"
    /\ IF running
       THEN /\ UNCHANGED running
            /\ ctl' = [ctl EXCEPT !.pc = "start_return"]
       ELSE /\ bf.pc = "idle"
            /\ running' = TRUE
            /\ ctl' = [ctl EXCEPT !.pc = "initialize"]
    /\ UNCHANGED <<active_websockets, connection_threads, ws_threads, socks>>
    /\ UNCHANGED <<dbVars, histVars, discVars, callVars, loadVars, cacheVars>>

\* success = self.initialize_market_data_enhanced(): its first step
EnhancedInitialize(mgr, syms, nOk, initOk) ==
    /\ ctl.pc = "initialize"
    /\ BfBegin("enhanced", mgr, syms, nOk, initOk)

\* "if success: ... else: self.running = False"; an exception raised by the
\* initialization leaves start() at the call, the flag as it is
EnhancedStartEnd ==
    /\ ctl.pc = "initialize"
    /\ bf.pc \in {"done", "raised"}
    /\ running' = IF bf.pc = "done" /\ bf.ret # "True" THEN FALSE ELSE running
    /\ ctl' = [ctl EXCEPT !.pc = "idle"]
    /\ UNCHANGED <<active_websockets, connection_threads, ws_threads, socks>>
    /\ UNCHANGED <<dbVars, histVars, discVars, callVars, loadVars, cacheVars>>

\* start() on a running client returns
EnhancedStartReturn ==
    /\ ctl.pc = "start_return"
    /\ ctl' = [ctl EXCEPT !.pc = "idle"]
    /\ UNCHANGED <<running, active_websockets, connection_threads, ws_threads,
                   socks>>
    /\ UNCHANGED <<dbVars, histVars, discVars, callVars, loadVars, cacheVars>>

\* stop(): self.running = False
EnhancedStop ==
    /\ running' = FALSE
    /\ ctl' = [ctl EXCEPT !.stopped = TRUE]
    /\ UNCHANGED <<active_websockets, connection_threads, ws_threads, socks>>
    /\ UNCHANGED <<dbVars, histVars, discVars, callVars, loadVars, cacheVars>>

EnhancedInit ==
    \E mgr \in Managers, syms \in SymbolInputs, nOk \in 0..3, initOk \in BOOLEAN :
        EnhancedInitialize(mgr, syms, nOk, initOk)

NextEnhanced ==
    \/ EnhancedStartBegin \/ EnhancedInit \/ EnhancedStartEnd
    \/ EnhancedStartReturn \/ EnhancedStop
    \/ BfSubmit \/ BackfillFetch \/ BackfillWrite \/ BackfillCollect \/ BfReturn

SpecEnhanced == InitBackfill /\ [][NextEnhanced]_vars

(***************************************************************************)
(* Concurrent writers: every thread upserts its own candles (its own       *)
(* symbol) into kline_data of the 'market_data' database, one              *)
(* execute_query call with the default arguments per candle, as the pool   *)
(* workers of the backfill do.  The lock is SQLite's: the connection whose *)
(* INSERT has executed holds the write lock of the database file until its *)
(* commit, and cursor.execute on another connection fails with "database   *)
(* is locked" when its busy timeout expires while the lock is held.  A     *)
(* thread whose call raises ends with that exception.                      *)
(***************************************************************************)
WriterSymbol(t) == IF t = 1 THEN "A" ELSE IF t = 2 THEN "B" ELSE "C"

WriterRow(t, i) == Row(WriterSymbol(t), "1h", i, 1 + (i % MaxClose))

WriterStmt(t, i) == Stmt("insert_or_replace", "kline_data", WriterRow(t, i))

\* the connections that hold the write lock of database d
LockHolders(d) ==
    {h \in 1..Len(conns) : conns[h].open /\ conns[h].db = d /\ conns[h].pending # <<>>}

LockedOut(t) == LockHolders(eq[t].db) \ {eq[t].conn} # {}

WriterCall(t) ==
    /\ eq[t].calls < MaxCandles
    /\ ExecCall(t, "writer", "market_data", WriterStmt(t, eq[t].calls + 1), TRUE,
                DefaultMaxRetries)

WriterExecute(t) ==
    /\ eq[t].pc = "execute"
    /\ ExecExecute(t, IF LockedOut(t) THEN "locked" ELSE "ok")

WriterCommit(t) == ExecCommit(t, "ok")

WriterWake(t) == ExecWake(t)

\* the call returned: the thread goes on to its next candle
WriterReturn(t) == eq[t].pc = "done" /\ eq[t].result = "ok" /\ ExecReturn(t)

InitWriters == PoolIdle /\ StoreEmpty(TableNames) /\ ExecIdle /\ ClientIdle

WritersCall == \E t \in Threads : WriterCall(t)
WritersExecute == \E t \in Threads : WriterExecute(t)
WritersCommit == \E t \in Threads : WriterCommit(t)
WritersWake == \E t \in Threads : WriterWake(t)
WritersReturn == \E t \in Threads : WriterReturn(t)

NextWriters ==
    WritersCall \/ WritersExecute \/ WritersCommit \/ WritersWake \/ WritersReturn

SpecWriters == InitWriters /\ [][NextWriters]_vars

\* every thread is scheduled and every sleep returns
SpecWritersFair == SpecWriters /\ WF_vars(NextWriters)

(***************************************************************************)
(* Handle ownership: one thread runs execute_query calls while any thread  *)
(* that is not inside a call of its own may call close_connection, for     *)
(* itself or with another thread's id, or close_all (the applications'     *)
(* shutdown).                                                              *)
(***************************************************************************)
OwnerThreads == {1}

OwnerCall(t) == WriterCall(t)

OwnerClose(c, d, tid) == eq[c].pc = "idle" /\ close_connection(c, d, tid)

OwnerShutdown(c) == eq[c].pc = "idle" /\ close_all(c)

InitOwner == PoolIdle /\ StoreEmpty(TableNames) /\ ExecIdle /\ ClientIdle

OwnerDoCall == \E t \in OwnerThreads : OwnerCall(t)
OwnerDoExecute == \E t \in OwnerThreads, o \in Outcomes : ExecExecute(t, o)
OwnerDoCommit == \E t \in OwnerThreads, o \in Outcomes : ExecCommit(t, o)
OwnerDoWake == \E t \in OwnerThreads : ExecWake(t)
OwnerDoReturn == \E t \in OwnerThreads : ExecReturn(t)
OwnerDoClose == \E c \in Threads, tid \in Threads : OwnerClose(c, "market_data", tid)
OwnerDoShutdown == \E c \in Threads : OwnerShutdown(c)

NextOwner ==
    \/ OwnerDoCall \/ OwnerDoExecute \/ OwnerDoCommit \/ OwnerDoWake
    \/ OwnerDoReturn \/ OwnerDoClose \/ OwnerDoShutdown

SpecOwner == InitOwner /\ [][NextOwner]_vars

(***************************************************************************)
(* _get_active_symbols: the symbol-listing request and the filter of its   *)
(* reply, in BinanceWebSocketClient and in the override of                 *)
(* PerformanceEnhancedWebSocketClient.  The reply is the environment's: the *)
(* request raises, answers with an error status, answers with a body that  *)
(* is not the expected listing, or answers with a listing.  Prices are in  *)
(* units of 0.1 USDT.                                                      *)
(***************************************************************************)
MaxListing == 2

MinPrice == 5

ListedSymbols == {"BTCUSDT", "ETHBTC"}

\* symbol.endswith('USDT') / symbol_data['quoteAsset']
QuoteAsset(sym) == IF sym = "BTCUSDT" THEN "USDT" ELSE "BTC"

ListingEntries ==
    [symbol : ListedSymbols, status : {"TRADING", "BREAK"},
     price : {NoPrice, MinPrice - 1, MinPrice}]

Listings == UNION {[1..n -> ListingEntries] : n \in 0..MaxListing}

FailedReplies ==
    {[kind |-> k, listing |-> <<>>] : k \in {"network_error", "http_error", "bad_payload"}}

Replies == FailedReplies \cup {[kind |-> "ok", listing |-> l] : l \in Listings}

SymbolsOf(entries) == [i \in 1..Len(entries) |-> entries[i].symbol]

fallback_symbols ==
    <<"BTCUSDT", "ETHUSDT", "BNBUSDT", "ADAUSDT", "XRPUSDT",
      "SOLUSDT", "DOTUSDT", "DOGEUSDT", "AVAXUSDT", "MATICUSDT",
      "LTCUSDT", "LINKUSDT", "UNIUSDT", "ATOMUSDT", "ETCUSDT",
      "XLMUSDT", "VETUSDT", "FILUSDT", "TRXUSDT", "EOSUSDT",
      "AAVEUSDT", "MKRUSDT", "COMPUSDT", "YFIUSDT", "SUSHIUSDT",
      "SNXUSDT", "CRVUSDT", "BALUSDT", "1INCHUSDT", "ENJUSDT",
      "MANAUSDT", "SANDUSDT", "CHZUSDT", "GALAUSDT", "AXSUSDT">>

\* PerformanceEnhancedWebSocketClient: USDT pairs whose lastPrice parses and
\* is at least 0.5
EnhancedKeeps(e) ==
    QuoteAsset(e.symbol) = "USDT" /\ e.price # NoPrice /\ e.price >= MinPrice

\* BinanceWebSocketClient: trading USDT pairs, skipped only when
\* get_current_price returned a price and it is below 0.5
BaselineKeeps(e) ==
    /\ e.status = "TRADING" /\ QuoteAsset(e.symbol) = "USDT"
    /\ ~(e.price # NoPrice /\ e.price < MinPrice)

\* PerformanceEnhancedWebSocketClient._get_active_symbols
EnhancedGetActiveSymbols(reply) ==
    IF reply.kind = "ok" THEN SymbolsOf(SelectSeq(reply.listing, EnhancedKeeps))
    ELSE fallback_symbols

\* BinanceWebSocketClient._get_active_symbols: "except Exception: return []"
BaselineGetActiveSymbols(reply) ==
    IF reply.kind = "ok" THEN SymbolsOf(SelectSeq(reply.listing, BaselineKeeps))
    ELSE <<>>

GetActiveSymbols(v, reply) ==
    IF v = "enhanced" THEN EnhancedGetActiveSymbols(reply)
    ELSE BaselineGetActiveSymbols(reply)

\* one call of _get_active_symbols; both implementations catch every
\* exception, so the call returns
Discover(v, reply) ==
    /\ disc.pc = "idle"
    /\ disc' = [pc |-> "returned", variant |-> v, reply |-> reply,
                result |-> GetActiveSymbols(v, reply), raised |-> FALSE]
    /\ UNCHANGED <<dbVars, histVars, streamVars, cacheVars, loadVars, callVars>>

\* the caller has taken the list; the next call may follow (__init__, start)
DiscoverDone ==
    /\ disc.pc = "returned"
    /\ disc' = NoDiscovery
    /\ UNCHANGED <<dbVars, histVars, streamVars, cacheVars, loadVars, callVars>>

InitDiscover == PoolIdle /\ StoreEmpty({}) /\ ExecIdle /\ ClientIdle

DiscoverBaseline == \E reply \in Replies : Discover("baseline", reply)
DiscoverEnhanced == \E reply \in Replies : Discover("enhanced", reply)

NextDiscover == DiscoverBaseline \/ DiscoverEnhanced \/ DiscoverDone

SpecDiscover == InitDiscover /\ [][NextDiscover]_vars

(***************************************************************************)
(* C1: the pool holds at most one physical connection per (thread,         *)
(* database-name) pair, that connection was opened by that thread for that *)
(* database, and a get_connection call by a thread that already has a      *)
(* pooled handle returns that handle and opens no connection.              *)
(***************************************************************************)
C1_OneConnectionPerPair ==
    /\ \A t \in Threads, d \in DbNames :
          /\ Cardinality(PoolHandles(connection_pool, t, d)) <= 1
          /\ \A h \in PoolHandles(connection_pool, t, d) :
                h \in 1..Len(conns) /\ conns[h].thread = t /\ conns[h].db = d
    /\ (lastCall.op = "get_connection" /\ lastCall.hit) =>
          (lastCall.ret = lastCall.prev /\ lastCall.opened = 0)
    /\ (lastCall.op = "get_connection" /\ ~lastCall.hit) =>
          (lastCall.ret = Len(conns) /\ lastCall.opened = 1)

C1_Witness ==
    /\ lastCall.op = "get_connection" /\ lastCall.hit
    /\ Len(conns) >= 2
    /\ \E c \in 1..Len(conns) : ~conns[c].open

(***************************************************************************)
(* C2: when every attempt of execute_query(max_retries = k) hits           *)
(* "database is locked", the statement is attempted exactly k times, the   *)
(* sleeps between attempts are 1, 2, 4, ... tenths of a second (strictly   *)
(* increasing), and the call ends by raising the lock error; no call ever  *)
(* makes more than k attempts.                                             *)
(***************************************************************************)
IsQueryFrame(f) == f.pc # "idle" /\ f.path \in {"query", "backfill"}

C2_RetryBound ==
    \A t \in Threads :
        IsQueryFrame(eq[t]) =>
            LET f == eq[t] IN
            /\ f.tries <= f.max_retries
            /\ \A i \in 1..Len(f.sleeps) : f.sleeps[i] = Pow2(i - 1)
            /\ \A i, j \in 1..Len(f.sleeps) : i < j => f.sleeps[i] < f.sleeps[j]
            /\ (f.pc = "done" /\ f.tries >= 1 /\ f.locked = f.tries) =>
                  /\ f.tries = f.max_retries
                  /\ Len(f.sleeps) = f.max_retries - 1
                  /\ f.result = "raise_locked"

C2_Witness ==
    \E t \in Threads :
        /\ IsQueryFrame(eq[t])
        /\ eq[t].pc = "done" /\ eq[t].max_retries = 3
        /\ eq[t].tries = 3 /\ eq[t].locked = 3
        /\ eq[t].sleeps = <<1, 2>>
        /\ eq[t].result = "raise_locked"

(***************************************************************************)
(* C8: every candle write, on the backfill path and on the streaming path, *)
(* that fails under lock contention has been attempted the full bounded    *)
(* number of times and its failure is raised to the caller.                *)
(***************************************************************************)
C8_EveryWriteRetried ==
    \A t \in Threads :
        (/\ eq[t].pc = "done"
         /\ eq[t].path \in {"backfill", "stream"}
         /\ eq[t].result \in {"raise_locked", "logged_locked"}) =>
            /\ eq[t].tries = DefaultMaxRetries
            /\ eq[t].result = "raise_locked"

(***************************************************************************)
(* C3: after a candle key has been written twice to a table with different *)
(* values, through any candle write path, the table holds exactly one row  *)
(* for that key and it is the row of the latest write.                     *)
(***************************************************************************)
WritesTo(tb, key) ==
    SelectSeq(writes, LAMBDA w : w.table = tb /\ KeyOf(w.row) = key)

C3_UpsertLatestWins ==
    \A tb \in TableNames :
        \A i \in 1..Len(writes) :
            LET ws == WritesTo(tb, KeyOf(writes[i].row)) IN
            (Len(ws) >= 2 /\ ws[Len(ws)] # ws[Len(ws) - 1]) =>
                SameKey(tables[tb], ws[Len(ws)].row) = {ws[Len(ws)].row}

(***************************************************************************)
(* C9: no step deletes a candle row: a key that has a row in a table has a *)
(* row in that table after every step.                                     *)
(***************************************************************************)
C9_NeverDeleted ==
    [][\A tb \in TableNames :
          \A r \in tables[tb] : SameKey(tables'[tb], r) # {}]_vars

(***************************************************************************)
(* C4: while the client runs (never stopped), one disconnect produces      *)
(* exactly one new connection: whenever every subscription thread of a     *)
(* symbol is back in its message loop on an open connection, the number of *)
(* connections opened for the symbol is the number of subscriptions made   *)
(* by start() plus the number of disconnects.                              *)
(***************************************************************************)
Opened(sy) == Cardinality({w \in 1..Len(socks) : socks[w].symbol = sy})

Subscribed(sy) ==
    Cardinality({t \in 1..Len(ws_threads) :
                    ws_threads[t].symbol = sy /\ ws_threads[t].by = "start"})

Lost(sy) ==
    Cardinality({w \in 1..Len(socks) : socks[w].symbol = sy /\ socks[w].state = "lost"})

Settled(sy) ==
    \A t \in 1..Len(ws_threads) :
        ws_threads[t].symbol = sy =>
            ws_threads[t].pc = "run" /\ socks[ws_threads[t].ws].state = "open"

C4_OneReconnectPerDisconnect ==
    \A sy \in StreamSymbols :
        (running /\ ~ctl.stopped /\ ctl.pc = "idle" /\ Settled(sy)) =>
            Opened(sy) = Subscribed(sy) + Lost(sy)

(***************************************************************************)
(* C5: a stream connection is opened only while running is true: once      *)
(* stop() has set the flag to false, no step opens a connection.           *)
(***************************************************************************)
C5_NoConnectAfterStop ==
    [][Len(socks') > Len(socks) => running]_vars

(***************************************************************************)
(* C6: in every reachable state the rolling cache of each (symbol,         *)
(* interval) holds at most N = 100 entries, also after a lazy rebuild from *)
(* storage with any limit argument.                                        *)
(***************************************************************************)
C6_CacheBounded ==
    \A sy \in CacheSymbols : Len(klines[sy].list) <= CacheBound

(***************************************************************************)
(* C7: an append that would make the cache exceed N evicts exactly one     *)
(* entry and it is the oldest candle of the cache (smallest open_time);    *)
(* a cache fed by the stream alone holds the most recent arrivals, at most *)
(* N, in arrival order.                                                    *)
(***************************************************************************)
Entries(list) == {list[i] : i \in 1..Len(list)}

Oldest(es) == CHOOSE x \in es : \A y \in es : x.open_time <= y.open_time

C7_StreamOnly ==
    \A sy \in CacheSymbols :
        klines[sy].from = "stream" =>
            LET l == klines[sy].list IN
            /\ Len(l) = IF klines[sy].appends <= CacheBound
                        THEN klines[sy].appends ELSE CacheBound
            /\ \A i \in 1..Len(l) : l[i] = CacheEntry(FeedRow(feedT - Len(l) + i))

C7_AppendStep ==
    \A sy \in CacheSymbols :
        (feedT' = feedT + 1 /\ Len(klines[sy].list) + 1 > CacheBound) =>
            LET old == klines[sy].list
                new == CacheEntry(FeedRow(feedT + 1))
            IN /\ Len(klines'[sy].list) = Len(old)
               /\ Entries(klines'[sy].list) = (Entries(old) \cup {new}) \ {Oldest(Entries(old))}

C7_EvictsOldest == []C7_StreamOnly /\ [][C7_AppendStep]_vars

(***************************************************************************)
(* C10: in a backfill run the failure of one symbol's task (fetch error,   *)
(* malformed payload, empty result, raised exception) aborts neither its   *)
(* batch nor the run: once the schema is prepared the run never raises,    *)
(* and at its end every symbol of the input has been fetched and           *)
(* collected, every symbol whose own fetch and writes succeeded has all    *)
(* its candles in storage, and no row of a symbol whose fetch failed was   *)
(* written by any step.                                                    *)
(***************************************************************************)
TaskTables(v) == IF v = "enhanced" THEN {"market_data", "kline_data"}
                 ELSE {"market_data"}

FetchFailed(sy) == tasks[sy].fetch = "failed"

C10_RunEnd ==
    bf.pc = "done" =>
        \A j \in 1..Len(bf.symbols) :
            LET t == tasks[bf.symbols[j]] IN
            /\ t.pc = "done" /\ t.collected /\ t.fetch # "none"
            /\ (t.fetch = "candles" /\ t.wrote = Len(TaskStmts(bf.variant, t.klines))) =>
                  /\ t.result = "true"
                  /\ \A i \in 1..Len(t.klines), tb \in TaskTables(bf.variant) :
                        t.klines[i] \in tables[tb]
            /\ FetchFailed(bf.symbols[j]) => t.wrote = 0

C10_NoAbort ==
    /\ bf.pc = "raised" => Submitted = {}
    /\ bf.pc \in {"return", "done"} =>
          \A j \in 1..Len(bf.symbols) : tasks[bf.symbols[j]].collected

C10_WriteStep ==
    \A sy \in BackfillSymbols, tb \in TableNames :
        {r \in tables'[tb] : r.symbol = sy} \ tables[tb] # {} =>
            tasks[sy].fetch = "candles"

C11_ReturnsCount ==
    (/\ bf.pc = "done" /\ bf.variant = "enhanced"
     /\ bf.symbols = <<"A", "B", "C">>
     /\ tasks["B"].fetch = "failed"
     /\ tasks["A"].result = "true" /\ tasks["C"].result = "true") =>
        /\ bf.successful = 2
        /\ bf.ret = ToString(bf.successful)

(***************************************************************************)
(* C12: a backfill run (initialize_market_data_enhanced) that got past the *)
(* preparation of the schema returns a value and raises nothing; the value *)
(* is a success report (true for its caller) exactly when at least one     *)
(* symbol's task loaded its candles, and a failure report (False, or None  *)
(* for an empty symbol list) when no symbol loaded.  The call raises only  *)
(* when initialize_schema raises, before any symbol is attempted.          *)
(***************************************************************************)
\* "if success:" in the callers of the run
Truthy(ret) == ret = "True"

Loaded == {sy \in BackfillSymbols : tasks[sy].result = "true"}

WriterEnded(t) ==
    \/ eq[t].pc = "idle" /\ eq[t].calls = MaxCandles
    \/ eq[t].pc = "done" /\ eq[t].result # "ok"

WritersDone == \A t \in Threads : WriterEnded(t)

C13_NoRowLoss ==
    /\ \A t \in Threads : eq[t].pc = "done" => eq[t].result # "raise_locked"
    /\ WritersDone =>
          \A t \in Threads, i \in 1..MaxCandles : WriterRow(t, i) \in tables["kline_data"]

(***************************************************************************)
(* C13, as the code has it: all threads complete; a call ends with the     *)
(* contention error only after the database was locked on all 5 of its     *)
(* attempts, and the error is then raised to the caller; every candle      *)
(* whose call returned is in storage with its values, and storage holds    *)
(* nothing but the candles written.                                        *)
(***************************************************************************)
\* the number of calls of thread t that have returned
Returned(t) ==
    IF eq[t].pc = "idle" \/ (eq[t].pc = "done" /\ eq[t].result = "ok")
    THEN eq[t].calls ELSE eq[t].calls - 1

C13_Safety ==
    /\ \A t \in Threads :
          /\ (eq[t].pc = "done" /\ eq[t].result # "ok") =>
                /\ eq[t].result = "raise_locked"
                /\ eq[t].tries = DefaultMaxRetries
                /\ eq[t].locked = DefaultMaxRetries
          /\ \A i \in 1..Returned(t) : WriterRow(t, i) \in tables["kline_data"]
    /\ tables["kline_data"] \subseteq
          {WriterRow(t, i) : t \in Threads, i \in 1..MaxCandles}

C13_RetriedThenRaised == []C13_Safety /\ <>WritersDone

C13_Witness ==
    /\ WritersDone
    /\ eq[2].pc = "done" /\ eq[2].result = "raise_locked"
    /\ eq[2].sleeps = <<1, 2, 4, 8>>
    /\ eq[1].pc = "idle"
    /\ \A i \in 1..MaxCandles : WriterRow(1, i) \in tables["kline_data"]
    /\ \A i \in 1..MaxCandles : WriterRow(2, i) \notin tables["kline_data"]

\* C14: a pooled handle is closed or removed only by its owning thread: a
\* step that closes a handle is a close call of the handle's owner, a step
\* that removes a handle from the pool is a close_connection call of its
\* owner or close_all (shutdown), and a handle a thread obtained for an
\* execute_query call is open for as long as that call runs.
InFlight(t) == eq[t].pc \in {"execute", "commit", "sleep"}

HandleClosed(h) == conns[h].open /\ ~conns'[h].open

HandleRemoved(h) ==
    \E e \in connection_pool : e[3] = h /\ e \notin connection_pool'

ByOwner(h) ==
    /\ lastCall'.op \in {"close_connection", "close_all"}
    /\ lastCall'.thread = conns[h].thread

C14_InFlightOpen ==
    \A t \in Threads : InFlight(t) =>
        conns[eq[t].conn].open /\ conns[eq[t].conn].thread = t

C14_OwnerOnlyStep ==
    /\ \A h \in 1..Len(conns) :
          /\ HandleClosed(h) => ByOwner(h)
          /\ HandleRemoved(h) => ByOwner(h) \/ lastCall'.op = "close_all"
    /\ C14_InFlightOpen'

C15_ErrorNotRetried ==
    \A t \in Threads :
        (/\ IsQueryFrame(eq[t])
         /\ eq[t].pc = "done"
         /\ eq[t].result = "raise_error"
         /\ eq[t].max_retries >= 1) =>
            /\ eq[t].tries = eq[t].locked + 1
            /\ Len(eq[t].sleeps) = eq[t].locked
            /\ eq[t].locked = 0 => eq[t].tries = 1 /\ eq[t].sleeps = <<>>

\* a call with max_retries = 3 whose first attempt met another error
C15_Witness ==
    \E t \in Threads :
        /\ IsQueryFrame(eq[t])
        /\ eq[t].pc = "done" /\ eq[t].result = "raise_error"
        /\ eq[t].max_retries = 3
        /\ eq[t].tries = 1 /\ eq[t].locked = 0 /\ eq[t].sleeps = <<>>

\* C16: when the symbol-listing request fails, every implementation of
\* _get_active_symbols returns the fixed fallback list, which is not empty,
\* and raises nothing.
C16_FallbackOnFailure ==
    (disc.pc = "returned" /\ disc.reply \in FailedReplies) =>
        /\ ~disc.raised
        /\ disc.result = fallback_symbols
        /\ disc.result # <<>>

\* C17: when stop() returns, the running flag is false, no socket that is
\* registered in the active set is still open, and the active set and the
\* list of subscription threads are empty.
C17_StopPostcondition ==
    ctl.pc = "stop_return" =>
        /\ ~running
        /\ \A sy \in StreamSymbols : active_websockets[sy] = 0
        /\ connection_threads = <<>>

\* C18: while the client runs, a subscription whose connection was lost
\* eventually attempts to reconnect: its on_close handler removes the
\* symbol's entry from the active set in the step that starts the cooldown
\* and, after the cooldown, calls _connect_websocket, and the thread that
\* is started for it opens a connection; nothing counts or caps the
\* attempts (in the model only the number of threads and sockets is bounded).
\* "While the client runs": stop() has not been called (ctl.stopped).
LostConnection(t) ==
    /\ t <= Len(ws_threads)
    /\ ws_threads[t].pc = "run"
    /\ socks[ws_threads[t].ws].state = "lost"

InCooldown(t) == t <= Len(ws_threads) /\ ws_threads[t].pc = "on_close_sleep"

\* the thread that on_close started for thread t's subscription
ReconnectThread(t, u) ==
    /\ t <= Len(ws_threads) /\ u <= Len(ws_threads) /\ u > t
    /\ ws_threads[u].by = "on_close"
    /\ ws_threads[u].symbol = ws_threads[t].symbol

Reconnected(t) ==
    \E u \in 1..MaxWsThreads : ReconnectThread(t, u) /\ ws_threads[u].pc = "run"

\* the model has no thread left for on_close to start, or no socket left
ModelBoundReached(t) ==
    \/ InCooldown(t) /\ Len(ws_threads) >= MaxWsThreads
    \/ Len(socks) >= MaxSocks

C18_RemovedBeforeCooldown ==
    \A t \in 1..Len(ws_threads) :
        (ws_threads[t].pc = "run" /\ ws_threads'[t].pc = "on_close_sleep") =>
            active_websockets'[ws_threads[t].symbol] = 0

Connected(sy) ==
    \E w \in 1..Len(socks) : socks[w].symbol = sy /\ socks[w].state = "open"

Connecting(sy) ==
    \E t \in 1..Len(ws_threads) :
        ws_threads[t].symbol = sy /\ ws_threads[t].pc = "connect"

HasSubscription(sy) == \E t \in 1..Len(ws_threads) : ws_threads[t].symbol = sy

SubscriptionState(sy) ==
    IF ~running /\ ctl.stopped /\ ctl.pc \in {"idle", "stop_return"} THEN "STOPPED"
    ELSE IF Connected(sy) THEN "CONNECTED"
    ELSE IF Connecting(sy) THEN "CONNECTING"
    ELSE "DISCONNECTED"

AllowedTransitions ==
    {<<"DISCONNECTED", "CONNECTING">>, <<"CONNECTING", "CONNECTED">>,
     <<"CONNECTED", "DISCONNECTED">>,
     <<"DISCONNECTED", "STOPPED">>, <<"CONNECTING", "STOPPED">>,
     <<"CONNECTED", "STOPPED">>}

OpensConnection(sy) ==
    /\ Len(socks') > Len(socks)
    /\ socks'[Len(socks')].symbol = sy

C19_Step ==
    \A sy \in StreamSymbols :
        /\ (HasSubscription(sy) /\ SubscriptionState(sy)' # SubscriptionState(sy)) =>
              <<SubscriptionState(sy), SubscriptionState(sy)'>> \in AllowedTransitions
        /\ OpensConnection(sy) => SubscriptionState(sy) = "CONNECTING"
        /\ SubscriptionState(sy)' = "STOPPED" => ctl.stopped'

C19_StateMachine == [][C19_Step]_vars

\* C20: an update for a candle that is still in progress (bar-closed flag
\* false: the price changes and no completed candle is delivered) changes
\* only the latest-price cache: storage, the rolling caches and the
\* connection pool are as before.
OpenBarUpdate == prices' # prices /\ feedT' = feedT

C20_OpenBarStep ==
    OpenBarUpdate =>
        /\ tables' = tables /\ schema' = schema
        /\ klines' = klines
        /\ connection_pool' = connection_pool /\ conns' = conns
        /\ \A sy \in CacheSymbols : prices'[sy] # prices[sy] => sy = "A"

C20_OnlyPriceCache == [][C20_OpenBarStep]_vars

\* the first update of the feed was for an open bar: the price of "A" is
\* cached, nothing is stored and no rolling cache exists
C20_Witness ==
    /\ feedT = 0
    /\ prices["A"] = FeedClose(1)
    /\ tables["klines"] = {}
    /\ ~klines["A"].present
    /\ conns = <<>>

\* C21: an update for a completed candle has both effects: after the
\* handler the candle is a row of the klines table and it is the last entry
\* of the rolling cache of its symbol and interval (on_message calls
\* _save_kline first and appends to the cache afterwards).
CompletedCandleStep == feedT' = feedT + 1

C21_BothEffectsStep ==
    CompletedCandleStep =>
        /\ FeedRow(feedT') \in tables'["klines"]
        /\ klines'["A"].present
        /\ klines'["A"].list # <<>>
        /\ klines'["A"].list[Len(klines'["A"].list)] = CacheEntry(FeedRow(feedT'))

C21_BothEffects == [][C21_BothEffectsStep]_vars

\* C22: a get_historical_klines call returns the rolling cache without a
\* storage query when the symbol and interval are cached, and otherwise
\* returns what a storage query for the symbol and interval returned;
\* the two sources are never merged.
C22_CacheElseStorage ==
    gh.pc = "done" =>
        /\ gh.hit => gh.ret = "cache" /\ ~gh.queried
        /\ ~gh.hit => gh.queried /\ gh.ret \in {"cache", "none"}

\* C23: a get_current_price call whose symbol is in the price cache returns
\* the cached price and sends no request; otherwise it requests the price of
\* that symbol and, when the request succeeds, stores the fetched price in
\* the cache and returns it; when the request fails it returns no price and
\* leaves the price cache as it was.
PriceCallReturns == gp.pc # "done" /\ gp'.pc = "done"

C23_PriceCallStep ==
    PriceCallReturns =>
        LET sy == gp'.symbol IN
        /\ gp'.hit =>
              /\ ~gp'.requested
              /\ gp'.ret = prices[sy] /\ prices' = prices
        /\ ~gp'.hit => gp'.requested
        /\ (gp'.requested /\ gp'.fetched # NoPrice) =>
              gp'.ret = gp'.fetched /\ prices'[sy] = gp'.fetched
        /\ (gp'.requested /\ gp'.fetched = NoPrice) =>
              gp'.ret = NoPrice /\ prices' = prices

C23_CacheThenExchange == [][C23_PriceCallStep]_vars

\* C24: close_connection and close_all raise nothing and are idempotent;
\* after close_all the pool is empty, and after close_connection the pool
\* has no entry for the thread and database it was called for, also when
\* closing the handle failed.
C24_CloseStep ==
    /\ \A c \in Threads : close_all(c) => connection_pool' = {}
    /\ \A c, tid \in Threads, d \in DbNames :
          close_connection(c, d, tid) => PoolEntries(connection_pool', tid, d) = {}

C24_CloseLeavesNoEntry == [][C24_CloseStep]_vars

\* C25: initialize_schema of either manager can run in every state, after
\* it the candle tables of the manager exist (market_data, and kline_data
\* for the enhanced manager), and running it again at once changes nothing.
SchemaCallOf(m) ==
    IF m = "enhanced" THEN StoreInitializeSchemaEnhanced ELSE StoreInitializeSchema

SchemaStmtsOf(m) == IF m = "enhanced" THEN EnhancedSchemaStmts ELSE BaseSchemaStmts

CandleTablesOf(m) ==
    IF m = "enhanced" THEN {"market_data", "kline_data"} ELSE {"market_data"}

C25_SchemaStep ==
    \A m \in Managers :
        /\ AllRun(schema, SchemaStmtsOf(m))
        /\ SchemaCallOf(m) =>
              LET after == [tables |-> tables', schema |-> schema'] IN
              /\ CandleTablesOf(m) \subseteq schema'
              /\ AllRun(schema', SchemaStmtsOf(m))
              /\ ApplyAllStmts(after, SchemaStmtsOf(m)) = after

C25_RepeatableSchema == [][C25_SchemaStep]_vars

\* initialize_schema has run again after candles were written: market_data
\* is empty again, kline_data has kept its rows
C25_Witness ==
    /\ schema = {"market_data", "kline_data"}
    /\ tables["market_data"] = {} /\ tables["kline_data"] # {}

\* C26: no thread holds klines_lock or price_lock while it performs a
\* storage statement or a network request.
HoldsLock(t) == \E l \in DOMAIN locks : locks[l] = t

\* the thread is at a storage statement or at a network request
AtStorageOrNetwork(t) ==
    \/ t = ReaderThread /\ (gh.pc = "query" \/ gp.pc = "request")
    \/ t = StreamThread /\ om.pc = "save"

C26_NoLockWhileWaiting ==
    \A t \in {StreamThread, ReaderThread} : AtStorageOrNetwork(t) => ~HoldsLock(t)

\* the reader is at its storage query while the stream thread is inside a
\* locked block
C26_Witness ==
    /\ gh.pc = "query" /\ HoldsLock(StreamThread)
    /\ ~HoldsLock(ReaderThread)

\* C27: the rolling cache of a stream holds its completed candles in the
\* order of the feed, whatever disconnects and reconnects have happened:
\* no candle stands behind a later one.
C27_FeedOrder ==
    \A sy \in CacheSymbols :
        \A i, j \in 1..Len(klines[sy].list) :
            i < j => klines[sy].list[i].open_time <= klines[sy].list[j].open_time

\* C28: what a backfill run leaves in storage does not depend on the order
\* in which the tasks of the pool run and interleave their statements: two
\* tasks that are both about to write commute, and at the end storage
\* holds what the tasks would have left had they run one after the other
\* in the order of the symbol list, each with the statements it completed.
NextStmt(sy) == TaskStmts(bf.variant, tasks[sy].klines)[tasks[sy].next]

WritesCommute ==
    \A a, b \in RunningTasks :
        a # b => ApplyTables(ApplyTables(tables, NextStmt(a)), NextStmt(b))
                   = ApplyTables(ApplyTables(tables, NextStmt(b)), NextStmt(a))

\* the statements the task of symbol sy completed
CompletedStmts(sy) ==
    SubSeq(TaskStmts(bf.variant, tasks[sy].klines), 1, tasks[sy].wrote)

RECURSIVE OneAfterTheOther(_, _)
OneAfterTheOther(tb, syms) ==
    IF syms = <<>> THEN tb
    ELSE OneAfterTheOther(ApplyAllTables(tb, CompletedStmts(Head(syms))), Tail(syms))

\* storage when the first task starts: market_data was recreated, kline_data
\* is new or holds what an earlier run wrote
StartingTables ==
    {[tb \in TableNames |-> IF tb = "kline_data" THEN kd ELSE {}] :
        kd \in {{}, EarlierRows}}

BackfillEnded == bf.pc \in {"return", "done"}

StartTaken == ctl.pc = "idle" /\ ctl'.pc = "start_loop"

StartRefused == ctl.pc = "idle" /\ ctl'.pc = "start_return"

DistinctSubscriptions ==
    \A i, j \in 1..Len(ws_threads) :
        i # j => ws_threads[i].symbol # ws_threads[j].symbol

ClientState == <<running, active_websockets, connection_threads, ws_threads, socks>>

C29_StartStep ==
    /\ Len(ws_threads) <= max_connections
    /\ DistinctSubscriptions
    /\ ctl.pc = "start_loop" =>
          running /\ Len(ws_threads) + Len(ctl.todo) <= max_connections
    /\ StartTaken => ~running /\ running'
    /\ StartRefused => running /\ UNCHANGED ClientState
    /\ ctl.pc = "start_return" =>
          UNCHANGED ClientState /\ ctl' = [ctl EXCEPT !.pc = "idle"]

C29_StartBounded == [][C29_StartStep]_vars

\* a start() call on a running client that holds max_connections
\* subscriptions is returning
C29_Witness ==
    /\ running /\ ctl.pc = "start_return"
    /\ Len(ws_threads) = max_connections

\* C30: when start() of the enhanced client has ended, is_running() is true
\* exactly if the historical initialization loaded at least one symbol (and
\* no stop() came in between), it is false when the initialization failed,
\* and it is false after every stop().
EnhancedStartEnded == ctl.pc = "idle" /\ bf.pc \in {"done", "raised"}

InitializationFailed == bf.pc = "raised" \/ bf.successful = 0

C30_IsRunningStep ==
    /\ (EnhancedStartEnded /\ ~ctl.stopped)' => (running' <=> bf'.successful > 0)
    /\ (EnhancedStartEnded /\ InitializationFailed)' => ~running'
    /\ EnhancedStop => ~running'

C30_RunningIffLoaded == [][C30_IsRunningStep]_vars

\* C31: during a backfill run of the enhanced client processed = successful
\* + failed, every symbol whose future was collected is counted once, and
\* when the run ends processed is the number of input symbols.
CollectedTasks == {sy \in BackfillSymbols : tasks[sy].collected}

C31_Counters ==
    bf.variant = "enhanced" =>
        /\ bf.processed = bf.successful + bf.failed
        /\ bf.processed = Cardinality(CollectedTasks)
        /\ bf.successful = Cardinality({sy \in CollectedTasks : tasks[sy].result = "true"})
        /\ bf.pc \in {"return", "done"} => bf.processed = Len(bf.symbols)

\* a run over three symbols has ended with successes and failures
C31_Witness ==
    /\ bf.variant = "enhanced" /\ bf.pc = "done"
    /\ bf.processed = 3 /\ bf.successful > 0 /\ bf.failed > 0

\* C32: at any time a symbol has at most one live subscription thread and
\* at most one open stream connection.
LiveThreads(sy) ==
    {t \in 1..Len(ws_threads) : ws_threads[t].symbol = sy /\ ws_threads[t].pc # "exit"}

OpenConnections(sy) ==
    {w \in 1..Len(socks) : socks[w].symbol = sy /\ socks[w].state = "open"}

C32_OnePerSymbol ==
    \A sy \in StreamSymbols :
        /\ Cardinality(LiveThreads(sy)) <= 1
        /\ Cardinality(OpenConnections(sy)) <= 1

\* C33: every open stream connection is the one registered in the active
\* set under its symbol, and once stop() has returned no connection
\* delivers an update that writes to storage, the rolling cache or the
\* price cache.
Registered(w) == active_websockets[socks[w].symbol] = w

StopHasReturned == ctl.stopped /\ ctl.pc = "idle"

C33_Step ==
    /\ \A w \in 1..Len(socks) : socks[w].state = "open" => Registered(w)
    /\ StopHasReturned => UNCHANGED <<tables, klines, prices>>

C33_StopSilences == [][C33_Step]_vars

\* C34: every rolling cache is ordered by strictly increasing open_time
\* (oldest first, no two entries with one open_time), after any sequence
\* of streamed completed candles and lazy rebuilds from storage.
StrictlyIncreasing(list) ==
    \A i \in 1..Len(list) :
        i < Len(list) => list[i].open_time < list[i + 1].open_time

C34_CacheIncreasing ==
    \A sy \in CacheSymbols : StrictlyIncreasing(klines[sy].list)

\* C35: every candle that the streaming path has appended to a rolling
\* cache is a row of the klines table with the same values; a completed
\* bar whose storage upsert failed is not cached.
StoredAs(sy, k) ==
    \E r \in tables["klines"] :
        r.symbol = sy /\ r.timeframe = "1m" /\ CacheEntry(r) = k

C35_CachedIsStored ==
    \A sy \in CacheSymbols :
        \A i \in 1..Len(klines[sy].list) : StoredAs(sy, klines[sy].list[i])

\* C36: an execute_query call that has ended either returns the result of
\* a successful execution of its statement or raises, for every value of
\* max_retries, 0 included; it never returns without having executed.
C36_ReturnsOrRaises ==
    \A t \in Threads :
        (IsQueryFrame(eq[t]) /\ eq[t].pc = "done") =>
            \/ eq[t].result = "ok" /\ eq[t].tries >= 1
            \/ eq[t].result \in {"raise_locked", "raise_error"}

\* C37: a statement passed to execute_query takes effect at most once and
\* only if the call returns normally: during the first call on a
\* connection the open transaction holds the statement at most once, also
\* after a contention error at commit, and when the call has raised
\* nothing of it stays pending on the connection.
Raised(f) == f.pc = "done" /\ f.result \in {"raise_locked", "raise_error"}

C37_AtMostOnce ==
    \A t \in Threads :
        (IsQueryFrame(eq[t]) /\ eq[t].calls = 1) =>
            /\ Len(conns[eq[t].conn].pending) <= 1
            /\ Raised(eq[t]) => conns[eq[t].conn].pending = <<>>

\* C38: the price cache entry of a symbol is never overwritten with an
\* older price: when a streamed update for the symbol has arrived after the
\* exchange produced the reply of a get_current_price call that missed the
\* cache, the write-back of that call leaves the streamed price in place.
StreamedSinceReply ==
    /\ gp.pc = "store_locked"
    /\ gp.cached = 0
    /\ prices[gp.symbol] # 0

C38_Step == StreamedSinceReply => prices'[gp.symbol] = prices[gp.symbol]

C38_NoOlderPrice == [][C38_Step]_vars

====
